---------------------------- MODULE Spec2Model ----------------------------
(***************************************************************************)
(* Model of screen_text_highlighterV4.py: the keyword match engine         *)
(* (AdvancedSearchModel), region selection, the OCR scan loop (ocr_worker) *)
(* and the overlay renderer (OverlayWindow.paintEvent).                    *)
(*                                                                         *)
(* Strings are sequences of one-character strings, so that substring       *)
(* search, lower-casing, tokenisation and regular-expression search are    *)
(* computed rather than assumed.                                           *)
(***************************************************************************)
EXTENDS Integers, Sequences, FiniteSets, TLC

(***************************************************************************)
(* Bounds of the model.                                                    *)
(***************************************************************************)
MaxKeywords == 2

MaxTextLen == 3

(***************************************************************************)
(* Characters and strings.                                                 *)
(***************************************************************************)
UpperChars == {"A", "C", "I", "T"}

LowerChars ==
    {"a", "b", "c", "d", "e", "f", "g", "h", "i", "l", "n", "o", "p", "r",
     "t", "u", "y"}

\* \w of Python's re module, restricted to the characters of the model
IsWordChar(c) == c \in UpperChars \cup LowerChars

\* str.lower() on one character
LowerChar(c) ==
    CASE c = "A" -> "a"
      [] c = "C" -> "c"
      [] c = "I" -> "i"
      [] c = "T" -> "t"
      [] OTHER -> c

\* str.lower()
Lower(s) == [i \in 1..Len(s) |-> LowerChar(s[i])]

\* Python's `needle in haystack` on strings
Contains(needle, haystack) ==
    \E i \in 0..(Len(haystack) - Len(needle)) :
        SubSeq(haystack, i + 1, i + Len(needle)) = needle

\* re.findall(r'\b\w+\b', s): a left-to-right scan collecting the maximal
\* runs of word characters
RECURSIVE ScanWords(_, _, _, _)
ScanWords(s, i, cur, acc) ==
    IF i > Len(s)
    THEN IF cur = <<>> THEN acc ELSE Append(acc, cur)
    ELSE IF IsWordChar(s[i])
         THEN ScanWords(s, i + 1, Append(cur, s[i]), acc)
         ELSE ScanWords(s, i + 1, <<>>,
                        IF cur = <<>> THEN acc ELSE Append(acc, cur))

FindAllWords(s) == ScanWords(s, 1, <<>>, <<>>)

\* the decimal digits and the value of a digit string
Digits == <<"0", "1", "2", "3", "4", "5", "6", "7", "8", "9">>

IsDigit(c) == \E v \in 1..10 : Digits[v] = c

DigitValue(c) == (CHOOSE v \in 1..10 : Digits[v] = c) - 1

RECURSIVE DigitsValue(_, _)
DigitsValue(t, acc) ==
    IF t = <<>> THEN acc ELSE DigitsValue(Tail(t), acc * 10 + DigitValue(t[1]))

\* re.compile raises OverflowError ("the repetition number is too large"),
\* which is no re.error: the pattern has a repetition count {n} of more
\* than ten digits, hence above MAXREPEAT = 4294967295 (shorter counts are
\* taken as within the limit)
RepeatOverflows(pattern) ==
    \E i, j \in 1..Len(pattern) :
        /\ 1 < i
        /\ pattern[i] = "{"
        /\ pattern[j] = "}"
        /\ j - i - 1 > 10
        /\ pattern[i + 1] # "0"
        /\ \A k \in (i + 1)..(j - 1) : IsDigit(pattern[k])

\* re.compile raises re.error: within the pattern alphabet of the model a
\* "[" is never closed (unterminated character set)
IsMalformed(pattern) == \E i \in 1..Len(pattern) : pattern[i] = "["

\* one pattern element against one character: "." is the wildcard, every
\* other character of the model's alphabet is a literal
PatternCharMatches(p, c, ignorecase) ==
    \/ p = "."
    \/ IF ignorecase THEN LowerChar(p) = LowerChar(c) ELSE p = c

\* re.search(pattern, text, flags) for a well-formed pattern
re_search(pattern, text, ignorecase) ==
    \E i \in 0..(Len(text) - Len(pattern)) :
        \A j \in 1..Len(pattern) :
            PatternCharMatches(pattern[j], text[i + j], ignorecase)

(***************************************************************************)
(* Texts and keywords of the model.                                        *)
(***************************************************************************)
T_cat_dog ==
    <<"t", "h", "e", " ", "c", "a", "t", " ", "a", "n", "d", " ", "t", "h",
      "e", " ", "d", "o", "g">>

T_only_cat ==
    <<"o", "n", "l", "y", " ", "t", "h", "e", " ", "c", "a", "t">>

T_category ==
    <<"c", "a", "t", "e", "g", "o", "r", "y">>

T_a_cat_ran ==
    <<"a", " ", "c", "a", "t", " ", "r", "a", "n">>

T_apple ==
    <<"I", " ", "a", "t", "e", " ", "a", "n", " ", "a", "p", "p", "l", "e",
      " ", "t", "o", "d", "a", "y">>

T_no_fruit ==
    <<"n", "o", " ", "f", "r", "u", "i", "t", " ", "h", "e", "r", "e">>

T_CAT == <<"C", "A", "T">>

T_c_dot_t == <<"c", ".", "t">>

T_bracket == <<"a", " ", "[", "a", "t">>

K_cat == <<"c", "a", "t">>

K_dog == <<"d", "o", "g">>

K_apple == <<"a", "p", "p", "l", "e">>

K_banana == <<"b", "a", "n", "a", "n", "a">>

K_Cat == <<"C", "a", "t">>

K_c_dot_t == <<"c", ".", "t">>

K_bracket == <<"[", "a", "t">>

\* a{99999999999}
K_repeat ==
    <<"a", "{", "9", "9", "9", "9", "9", "9", "9", "9", "9", "9", "9", "}">>

KeywordUniverse ==
    {K_cat, K_dog, K_apple, K_banana, K_Cat, K_c_dot_t, K_bracket}

ExampleTexts ==
    {T_cat_dog, T_only_cat, T_category, T_a_cat_ran, T_apple, T_no_fruit,
     T_CAT, T_c_dot_t, T_bracket}

GenAlphabet == {"c", "a", "t", " "}

SeqsUpTo(S, n) == UNION {[1..k -> S] : k \in 0..n}

Texts == ExampleTexts \cup SeqsUpTo(GenAlphabet, MaxTextLen)

IsUnique(s) == \A i, j \in 1..Len(s) : i # j => s[i] # s[j]

\* keyword lists as add_keyword builds them: no duplicates, no blanks
KeywordLists == {s \in SeqsUpTo(KeywordUniverse, MaxKeywords) : IsUnique(s)}

Logics == {"OR", "AND"}

SearchModels ==
    [keywords : KeywordLists, logic : Logics, case_sensitive : BOOLEAN,
     partial_match : BOOLEAN, use_regex : BOOLEAN, whole_word : BOOLEAN]

\* AdvancedSearchModel.__init__
NewSearchModel ==
    [keywords |-> <<>>, logic |-> "OR", case_sensitive |-> FALSE,
     partial_match |-> TRUE, use_regex |-> FALSE, whole_word |-> FALSE]

(***************************************************************************)
(* AdvancedSearchModel.match_text                                          *)
(***************************************************************************)
\* the regex loop: "true"/"false" are its return values, "error" is re.error
\* escaping the loop into the except clause, "raise" is an exception of
\* another class, which the except clause does not catch (no pattern of the
\* model has both faults)
RECURSIVE RegexLoop(_, _, _)
RegexLoop(m, text, i) ==
    IF i > Len(m.keywords)
    THEN IF m.logic = "AND" THEN "true" ELSE "false"
    ELSE IF RepeatOverflows(m.keywords[i])
         THEN "raise"
    ELSE IF IsMalformed(m.keywords[i])
         THEN "error"
         ELSE IF re_search(m.keywords[i], text, ~m.case_sensitive)
              THEN IF m.logic = "OR" THEN "true" ELSE RegexLoop(m, text, i + 1)
              ELSE IF m.logic = "AND" THEN "false"
                                      ELSE RegexLoop(m, text, i + 1)

\* the per-keyword literal match of match_text's second loop
LiteralMatch(m, keyword, text) ==
    LET text_to_match == IF m.case_sensitive THEN text ELSE Lower(text)
        keyword_to_match == IF m.case_sensitive THEN keyword ELSE Lower(keyword)
        words == FindAllWords(text_to_match)
    IN  IF m.partial_match
        THEN IF m.whole_word
             THEN \E k \in 1..Len(words) :
                      keyword_to_match =
                          (IF m.case_sensitive THEN words[k] ELSE Lower(words[k]))
             ELSE Contains(keyword_to_match, text_to_match)
        ELSE keyword_to_match = text_to_match

Matches(m, text) == [k \in 1..Len(m.keywords) |-> LiteralMatch(m, m.keywords[k], text)]

\* match_text without its first test, so that AND over no keyword is true
match_text_NoEmptyTest(m, text) ==
    LET regex == IF m.use_regex THEN RegexLoop(m, text, 1) ELSE "error"
        matches == Matches(m, text)
    IN  IF regex = "true" THEN TRUE
        ELSE IF regex = "false" THEN FALSE
        ELSE IF m.logic = "OR"
             THEN \E k \in 1..Len(matches) : matches[k]
             ELSE \A k \in 1..Len(matches) : matches[k]

match_text(m, text) ==
    IF m.keywords = <<>> \/ text = <<>>
    THEN FALSE
    ELSE LET regex == IF m.use_regex THEN RegexLoop(m, text, 1) ELSE "error"
             matches == Matches(m, text)
         IN  IF regex = "true" THEN TRUE
             ELSE IF regex = "false" THEN FALSE
             ELSE IF m.logic = "OR"
                  THEN \E k \in 1..Len(matches) : matches[k]
                  ELSE \A k \in 1..Len(matches) : matches[k]

\* match_text does not return: the regex loop raised an exception that is
\* no re.error (the value of match_text above is then of no meaning)
match_text_raises(m, text) ==
    /\ m.keywords # <<>>
    /\ text # <<>>
    /\ m.use_regex
    /\ RegexLoop(m, text, 1) = "raise"

(***************************************************************************)
(* AdvancedSearchModel.get_match_details                                   *)
(***************************************************************************)
\* the per-keyword match of get_match_details' own loop
DetailsMatch(m, keyword, text) ==
    LET keyword_to_match == IF m.case_sensitive THEN keyword ELSE Lower(keyword)
        text_to_match == IF m.case_sensitive THEN text ELSE Lower(text)
        words == FindAllWords(text_to_match)
    IN  IF m.partial_match
        THEN IF m.whole_word
             THEN \E k \in 1..Len(words) :
                      keyword_to_match =
                          (IF m.case_sensitive THEN words[k] ELSE Lower(words[k]))
             ELSE Contains(keyword_to_match, text_to_match)
        ELSE keyword_to_match = text_to_match

\* get_match_details with a loop that stops at the first matching keyword
RECURSIVE DetailsLoop_FirstOnly(_, _, _, _)
DetailsLoop_FirstOnly(m, text, i, details) ==
    IF i > Len(m.keywords)
    THEN details
    ELSE IF DetailsMatch(m, m.keywords[i], text)
         THEN [matched |-> IF m.logic = "OR" THEN TRUE ELSE details.matched,
               keywords |-> Append(details.keywords, m.keywords[i])]
         ELSE DetailsLoop_FirstOnly(m, text, i + 1, details)

\* one pass of the loop body over keywords[i..]; details is the dict so far
RECURSIVE DetailsLoop(_, _, _, _)
DetailsLoop(m, text, i, details) ==
    IF i > Len(m.keywords)
    THEN details
    ELSE IF DetailsMatch(m, m.keywords[i], text)
         THEN DetailsLoop(m, text, i + 1,
                  [matched |-> IF m.logic = "OR" THEN TRUE ELSE details.matched,
                   keywords |-> Append(details.keywords, m.keywords[i])])
         ELSE DetailsLoop(m, text, i + 1, details)

get_match_details(m, text) ==
    IF m.keywords = <<>> \/ text = <<>>
    THEN [matched |-> FALSE, keywords |-> <<>>]
    ELSE LET details == DetailsLoop(m, text, 1,
                                    [matched |-> FALSE, keywords |-> <<>>])
         IN  IF m.logic = "AND" /\ Len(details.keywords) < Len(m.keywords)
             THEN [details EXCEPT !.matched = FALSE]
             ELSE details

(***************************************************************************)
(* Monitors and regions.                                                   *)
(***************************************************************************)
\* sct.monitors[1:] of the model: two displays side by side; the virtual
\* desktop below y = 100 belongs to no display
SctMonitors ==
    <<[left |-> 0, top |-> 0, width |-> 200, height |-> 100],
      [left |-> 200, top |-> 0, width |-> 160, height |-> 100]>>

\* get_monitor_info: 1-based ids, right and bottom derived
get_monitor_info ==
    [i \in 1..Len(SctMonitors) |->
        [index |-> i,
         left |-> SctMonitors[i].left,
         top |-> SctMonitors[i].top,
         width |-> SctMonitors[i].width,
         height |-> SctMonitors[i].height,
         right |-> SctMonitors[i].left + SctMonitors[i].width,
         bottom |-> SctMonitors[i].top + SctMonitors[i].height]]

MonitorIds == DOMAIN get_monitor_info

\* the selected_regions dict as its entries in insertion order
HasKey(regions, idx) == \E k \in 1..Len(regions) : regions[k].idx = idx

\* a store that adds an entry even when the key is present
DictSet_Appends(regions, idx, region) ==
    Append(regions, [idx |-> idx, region |-> region])

\* selected_regions[idx] = region: an existing key keeps its place
DictSet(regions, idx, region) ==
    IF HasKey(regions, idx)
    THEN [k \in 1..Len(regions) |->
             IF regions[k].idx = idx
             THEN [idx |-> idx, region |-> region]
             ELSE regions[k]]
    ELSE Append(regions, [idx |-> idx, region |-> region])

\* the regions a selection or select_all_monitors can have stored before
R1 == <<100, 50, 60, 30>>

R2 == <<0, 0, 160, 100>>

InitRegistries ==
    {<<>>,
     <<[idx |-> 1, region |-> R1]>>,
     <<[idx |-> 1, region |-> R1], [idx |-> 2, region |-> R2]>>}

(***************************************************************************)
(* State.                                                                  *)
(***************************************************************************)
VARIABLES
    search_model,        \* control_panel.search_model
    test_text,           \* the text of the test_search handler
    test_out,            \* what test_search computed
    selected_regions,    \* global selected_regions
    monitor_info,        \* global monitor_info
    is_selecting_region, \* global is_selecting_region
    region_window,       \* the RegionSelectionWindow: target_monitor, start,
                         \* end, is_selecting, and whether it is shown
    last_release,        \* what the last mouseReleaseEvent did
    coord,               \* one fragment followed from recognizer to screen
    ocr_active,          \* global ocr_active
    scale_spin,          \* control_panel.scale_spin.value()
    lock,                \* global lock: "free", or the thread holding it
    heap,                \* the list objects, by identity
    matched_boxes,       \* global matched_boxes: the identity of a list
    worker,              \* ocr_worker's position and local variables
    paint,               \* OverlayWindow.paintEvent's position and locals
    feed,                \* the recognizer output replayed to every cycle
    pub_value,           \* history: the list as it was when last published
    prev_value,          \* history: the list published the time before
    pub_count,           \* history: how many lists were published (capped)
    cycle_log,           \* history: what each region of this cycle received,
                         \* kept while the recognizer output is replayed
    cycle_start,         \* history: the search model and the registry as
                         \* they were when this cycle began (kept likewise)
    last_load,           \* what the last load_config did
    panel,               \* the control panel's keyword box, logic radio
                         \* button and four check boxes
    last_start           \* what the last start_search did

matchVars == <<test_text, test_out>>

regionVars == <<selected_regions, monitor_info>>

gestureVars == <<is_selecting_region, region_window, last_release>>

coordVars == <<coord>>

scanVars == <<ocr_active, scale_spin, lock, heap, matched_boxes, worker, paint>>

histVars == <<feed, pub_value, prev_value, pub_count, cycle_log, cycle_start>>

loadVars == <<last_load>>

panelVars == <<panel, last_start>>

vars ==
    <<search_model, matchVars, regionVars, gestureVars, coordVars, scanVars,
      histVars, loadVars, panelVars>>

(***************************************************************************)
(* Coordinates: from a recognizer-local rectangle to the screen.           *)
(***************************************************************************)
\* the scale percentages of the model, within scale_spin's range 50..200
ScalePcts == {50, 56, 100, 200}

\* recognizer-local offsets and sizes of the model
LocalValues == {0, 10, 12, 14, 28, 40}

\* the pairs <<percentage, value>> of the model for which the IEEE double
\* quotient value / (percentage / 100.0) lies just below the exact integer
\* quotient, so that int() truncates to one less: 14 / 0.56 is
\* 24.999999999999996 and 28 / 0.56 is 49.99999999999999
FloatTruncatesLow == {<<56, 14>>, <<56, 28>>}

\* int(value / scale_factor) with scale_factor = percentage / 100.0
PyIntDiv(value, pct) ==
    IF <<pct, value>> \in FloatTruncatesLow
    THEN ((value * 100) \div pct) - 1
    ELSE (value * 100) \div pct

\* the tuple appended to boxes for fragment frag of a capture of region
BoxOf(region, frag, pct, monitor_idx, keyword_idx) ==
    <<PyIntDiv(frag.left, pct) + region[1],
      PyIntDiv(frag.top, pct) + region[2],
      PyIntDiv(frag.width, pct),
      PyIntDiv(frag.height, pct),
      monitor_idx,
      keyword_idx>>

pad_x == 4

pad_y == 2

\* paintEvent on one box: the global position and the padded QRect drawn
PaintRect(box, minfo) ==
    LET global_x == box[1] + minfo[box[5]].left
        global_y == box[2] + minfo[box[5]].top
    IN  [global_x |-> global_x,
         global_y |-> global_y,
         w |-> box[3],
         h |-> box[4],
         rect |-> <<global_x - pad_x, global_y - pad_y,
                    box[3] + pad_x * 2, box[4] + pad_y * 2>>,
         keyword_idx |-> box[6]]

(***************************************************************************)
(* Recognizer output.                                                      *)
(***************************************************************************)
T_blank == <<" ">>

FragA ==
    [text |-> T_cat_dog, left |-> 10, top |-> 10, width |-> 40, height |-> 12]

FragBlank ==
    [text |-> T_blank, left |-> 0, top |-> 0, width |-> 10, height |-> 12]

FragB ==
    [text |-> <<" ">> \o T_only_cat, left |-> 14, top |-> 28, width |-> 28,
     height |-> 12]

\* pytesseract.image_to_data results of the model
Frames == {<<FragA, FragBlank, FragB>>, <<FragB>>}

\* what capture and recognition of one region can yield: an exception, or
\* one of the given frames
OutcomesOf(frames) ==
    [failed : {TRUE}, data : {<<>>}] \cup [failed : {FALSE}, data : frames]

Outcomes == OutcomesOf(Frames)

\* the white space of the model: a blank and the line break
IsSpace(c) == c \in {" ", "\n"}

\* str.strip()
RECURSIVE LStrip(_)
LStrip(t) ==
    IF t # <<>> /\ IsSpace(t[1]) THEN LStrip(Tail(t)) ELSE t

RECURSIVE RStrip(_)
RStrip(t) ==
    IF t # <<>> /\ IsSpace(t[Len(t)]) THEN RStrip(SubSeq(t, 1, Len(t) - 1)) ELSE t

Strip(t) == RStrip(LStrip(t))

(***************************************************************************)
(* Initial values.                                                         *)
(***************************************************************************)
NoCoord ==
    [phase |-> "none", monitor_idx |-> 1, region |-> <<0, 0, 0, 0>>,
     frag |-> FragBlank, pct |-> 100, box |-> <<>>, drawn |-> <<>>]

ListIds == {1, 2}

\* ocr_worker before its first iteration
WorkerAtTop ==
    [pc |-> "top", boxes |-> 2, search_results |-> <<>>, it_pos |-> 0,
     it_len |-> 0, monitor_idx |-> 0, region |-> <<>>, data |-> <<>>,
     i |-> 0, scale_factor |-> 100]

PaintIdle == [pc |-> "idle", i |-> 0, drawn |-> <<>>]

NoFeed ==
    [on |-> FALSE, of |-> [m \in MonitorIds |-> [failed |-> TRUE, data |-> <<>>]]]

NoStart == [search_model |-> NewSearchModel, selected_regions |-> <<>>]

NoLoad == [done |-> FALSE, failed_at |-> "none"]

\* the widgets as ControlPanel.init_ui leaves them
NewPanel ==
    [keywords_input |-> <<>>, or_radio |-> TRUE, case_sensitive_check |-> FALSE,
     partial_match_check |-> TRUE, whole_word_check |-> FALSE,
     regex_check |-> FALSE]

\* the widgets showing search model m, the keyword box being empty
PanelOf(m) ==
    [keywords_input |-> <<>>, or_radio |-> (m.logic = "OR"),
     case_sensitive_check |-> m.case_sensitive,
     partial_match_check |-> m.partial_match,
     whole_word_check |-> m.whole_word, regex_check |-> m.use_regex]

NotStarted == [done |-> FALSE, warned |-> FALSE]

\* module-level globals and a control panel with its default widget values
ScanAtRest ==
    /\ ocr_active = TRUE
    /\ scale_spin = 100
    /\ lock = "free"
    /\ heap = [id \in ListIds |-> <<>>]
    /\ matched_boxes = 1
    /\ worker = WorkerAtTop
    /\ paint = PaintIdle
    /\ feed = NoFeed
    /\ pub_value = <<>>
    /\ prev_value = <<>>
    /\ pub_count = 0
    /\ cycle_log = <<>>
    /\ cycle_start = NoStart
    /\ last_load = NoLoad
    /\ panel = PanelOf(search_model)
    /\ last_start = NotStarted

NoTest ==
    [done |-> FALSE, result |-> FALSE,
     details |-> [matched |-> FALSE, keywords |-> <<>>]]

NoWindow ==
    [shown |-> FALSE, target_monitor |-> 0, start |-> <<0, 0>>,
     end |-> <<0, 0>>, is_selecting |-> FALSE]

NoRelease == [done |-> FALSE, emitted |-> FALSE, before |-> <<>>]

\* ControlPanel.test_search: match_text, then get_match_details, on one text
test_search ==
    /\ ~test_out.done
    /\ test_out' = [done |-> TRUE,
                    result |-> match_text(search_model, test_text),
                    details |-> get_match_details(search_model, test_text)]
    /\ UNCHANGED <<search_model, test_text, regionVars, gestureVars, coordVars,
                 scanVars, histVars, loadVars, panelVars>>

InitMatch ==
    /\ search_model \in SearchModels
    /\ test_text \in Texts
    /\ test_out = NoTest
    /\ selected_regions = <<>>
    /\ monitor_info = get_monitor_info
    /\ is_selecting_region = FALSE
    /\ region_window = NoWindow
    /\ last_release = NoRelease
    /\ coord = NoCoord
    /\ ScanAtRest

NextMatch == test_search

SpecMatch == InitMatch /\ [][NextMatch]_vars

(***************************************************************************)
(* Region selection: RegionSelectionWindow and ControlPanel.               *)
(***************************************************************************)
MinWidth == 50

MinHeight == 30

\* window-local mouse positions of the model (a drag may leave the window)
GestureXs == {0, 49, 50, 99, 250}

GestureYs == {0, 29, 30, 120, 150}

GesturePoints == GestureXs \X GestureYs

Min(a, b) == IF a <= b THEN a ELSE b

Abs(a) == IF a >= 0 THEN a ELSE -a

\* the window's position: the target monitor's origin (setGeometry)
WindowX(win) == monitor_info[win.target_monitor].left

WindowY(win) == monitor_info[win.target_monitor].top

\* the monitors of monitor_info that contain the global point, edges included
MonitorsAt(gx, gy) ==
    {idx \in DOMAIN monitor_info :
        /\ monitor_info[idx].left <= gx /\ gx <= monitor_info[idx].right
        /\ monitor_info[idx].top <= gy /\ gy <= monitor_info[idx].bottom}

\* RegionSelectionWindow.get_monitor_at_point: the first monitor in dict
\* order containing the point, 0 standing for None
get_monitor_at_point(win, x, y) ==
    LET found == MonitorsAt(x + WindowX(win), y + WindowY(win))
    IN  IF found = {} THEN 0
        ELSE CHOOSE idx \in found : \A other \in found : idx <= other

\* ControlPanel.start_region_selection
start_region_selection(monitor_index) ==
    /\ ~is_selecting_region
    /\ is_selecting_region' = TRUE
    /\ region_window' = [NoWindow EXCEPT !.shown = TRUE,
                                         !.target_monitor = monitor_index]
    /\ UNCHANGED <<search_model, matchVars, regionVars, last_release, coordVars,
                 scanVars, histVars, loadVars, panelVars>>

\* RegionSelectionWindow.mousePressEvent (left button)
mousePressEvent(pos) ==
    /\ region_window.shown
    /\ region_window' = [region_window EXCEPT !.start = pos, !.end = pos,
                                              !.is_selecting = TRUE]
    /\ last_release' = NoRelease
    /\ UNCHANGED <<search_model, matchVars, regionVars, is_selecting_region,
                 coordVars, scanVars, histVars, loadVars, panelVars>>

\* RegionSelectionWindow.mouseMoveEvent
mouseMoveEvent(pos) ==
    /\ region_window.shown
    /\ region_window.is_selecting
    /\ region_window.end # pos
    /\ region_window' = [region_window EXCEPT !.end = pos]
    /\ last_release' = NoRelease
    /\ UNCHANGED <<search_model, matchVars, regionVars, is_selecting_region,
                 coordVars, scanVars, histVars, loadVars, panelVars>>

\* a minimum-size check that rejects the boundary itself
TooSmall_Exclusive(w, h) == w <= MinWidth \/ h <= MinHeight

\* the minimum-size check of mouseReleaseEvent
TooSmall(w, h) == w < MinWidth \/ h < MinHeight

\* ControlPanel.on_region_selected, the slot of region_selected
on_region_selected(regions, region, monitor_index) ==
    DictSet(regions, monitor_index, region)

\* RegionSelectionWindow.mouseReleaseEvent (left button), with the slot that
\* the emitted region_selected signal runs
mouseReleaseEvent ==
    /\ region_window.shown
    /\ region_window.is_selecting
    /\ ~last_release.done
    /\ LET x == Min(region_window.start[1], region_window.end[1])
           y == Min(region_window.start[2], region_window.end[2])
           w == Abs(region_window.start[1] - region_window.end[1])
           h == Abs(region_window.start[2] - region_window.end[2])
           global_x == x + WindowX(region_window)
           global_y == y + WindowY(region_window)
           monitor_idx ==
               get_monitor_at_point(region_window, x + (w \div 2), y + (h \div 2))
       IN  IF TooSmall(w, h) \/ monitor_idx = 0
           THEN /\ last_release' = [done |-> TRUE, emitted |-> FALSE,
                                    before |-> selected_regions]
                /\ UNCHANGED <<selected_regions, region_window>>
           ELSE LET relative_x == global_x - monitor_info[monitor_idx].left
                    relative_y == global_y - monitor_info[monitor_idx].top
                IN  /\ selected_regions' =
                           on_region_selected(selected_regions,
                               <<relative_x, relative_y, w, h>>, monitor_idx)
                    /\ region_window' = [region_window EXCEPT !.shown = FALSE]
                    /\ last_release' = [done |-> TRUE, emitted |-> TRUE,
                                        before |-> selected_regions]
    /\ UNCHANGED <<search_model, matchVars, monitor_info, is_selecting_region,
                 coordVars, scanVars, histVars, loadVars, panelVars>>

InitRegion ==
    /\ search_model = NewSearchModel
    /\ test_text = <<>>
    /\ test_out = NoTest
    /\ selected_regions \in InitRegistries
    /\ monitor_info = get_monitor_info
    /\ is_selecting_region = FALSE
    /\ region_window = NoWindow
    /\ last_release = NoRelease
    /\ coord = NoCoord
    /\ ScanAtRest

NextRegion ==
    \/ \E m \in MonitorIds : start_region_selection(m)
    \/ \E pos \in GesturePoints : mousePressEvent(pos)
    \/ \E pos \in GesturePoints : mouseMoveEvent(pos)
    \/ mouseReleaseEvent

SpecRegion == InitRegion /\ [][NextRegion]_vars

(***************************************************************************)
(* The scan loop: ocr_worker.                                              *)
(***************************************************************************)
\* a list object nothing else refers to
NewList == CHOOSE id \in ListIds : id # matched_boxes

\* the worker keeps filling the list object it used in the cycle before
CycleBoxes_Reused == worker.boxes

\* boxes = []: the worker's list of this cycle is a new object
CycleBoxes == NewList

\* Python's seq[k] for a 0-based k that may be negative
PyIndex(seq, k) == IF k >= 0 THEN seq[k + 1] ELSE seq[Len(seq) + k + 1]

\* keyword_indices[0] if keyword_indices else 0
RECURSIVE IndexOf(_, _, _)
IndexOf(seq, x, k) ==
    IF k > Len(seq) THEN -1
    ELSE IF seq[k] = x THEN k - 1 ELSE IndexOf(seq, x, k + 1)

KeywordIdx(m, details) ==
    LET keyword_indices ==
            SelectSeq([k \in 1..Len(details.keywords) |->
                          IndexOf(m.keywords, details.keywords[k], 1)],
                      LAMBDA n : n >= 0)
    IN  IF keyword_indices # <<>> THEN keyword_indices[1] ELSE 0

\* the body of the fragment loop on fragment frag: the boxes and search
\* results it appends (none, or one of each)
\* a fragment loop that reports every non-empty fragment, matched or not
FragmentYield_ReportsAll(m, frag, region, pct, monitor_idx) ==
    LET text == Strip(frag.text)
        details == get_match_details(m, text)
    IN  [boxes |-> IF text # <<>> /\ match_text(m, text) /\ details.matched
                   THEN <<BoxOf(region, frag, pct, monitor_idx,
                                KeywordIdx(m, details))>>
                   ELSE <<>>,
         results |-> IF text # <<>>
                     THEN <<[text |-> text, keywords |-> details.keywords,
                             monitor |-> monitor_idx]>>
                     ELSE <<>>]

FragmentRaises(m, frag) ==
    Strip(frag.text) # <<>> /\ match_text_raises(m, Strip(frag.text))

FragmentYield(m, frag, region, pct, monitor_idx) ==
    LET text == Strip(frag.text)
        details == get_match_details(m, text)
    IN  IF /\ text # <<>>
           /\ ~match_text_raises(m, text)
           /\ match_text(m, text)
           /\ details.matched
        THEN [boxes |-> <<BoxOf(region, frag, pct, monitor_idx,
                                KeywordIdx(m, details))>>,
              results |-> <<[text |-> text, keywords |-> details.keywords,
                             monitor |-> monitor_idx]>>]
        ELSE [boxes |-> <<>>, results |-> <<>>]

ScanFrame ==
    <<search_model, matchVars, regionVars, gestureVars, coordVars, loadVars,
      panelVars>>

\* the worker's locals that are assigned again before they are next read
\* are put back to their first values, so that dead values do not
\* distinguish states
ForgetRegion(w) ==
    [w EXCEPT !.monitor_idx = 0, !.region = <<>>, !.data = <<>>, !.i = 0,
              !.scale_factor = 100]

ForgetCycle(w) ==
    [ForgetRegion(w) EXCEPT !.it_pos = 0, !.it_len = 0]

\* an iteration that goes on into the cycle although scanning is disabled
W_idle_StartsCycle ==
    /\ worker.pc = "top"
    /\ ~ocr_active
    /\ worker' = [worker EXCEPT !.pc = "next_region",
                                !.it_pos = 0,
                                !.it_len = Len(selected_regions)]
    /\ UNCHANGED <<ScanFrame, ocr_active, scale_spin, lock, heap, matched_boxes,
                   paint, histVars>>

\* while True: if not ocr_active: time.sleep(0.5); continue
W_idle ==
    /\ worker.pc = "top"
    /\ ~ocr_active
    /\ worker' = [worker EXCEPT !.pc = "idle_sleep"]
    /\ UNCHANGED <<ScanFrame, ocr_active, scale_spin, lock, heap, matched_boxes,
                   paint, histVars>>

W_idle_wake ==
    /\ worker.pc = "idle_sleep"
    /\ worker' = [worker EXCEPT !.pc = "top"]
    /\ UNCHANGED <<ScanFrame, ocr_active, scale_spin, lock, heap, matched_boxes,
                   paint, histVars>>

\* a cycle that starts with the boxes of the cycles before it still in the
\* list
W_begin_cycle_Accumulates ==
    /\ worker.pc = "top"
    /\ ocr_active
    /\ worker' = [worker EXCEPT !.pc = "next_region",
                                !.boxes = matched_boxes,
                                !.search_results = <<>>,
                                !.it_pos = 0,
                                !.it_len = Len(selected_regions)]
    /\ cycle_log' = <<>>
    /\ cycle_start' = IF feed.on
                      THEN [search_model |-> search_model,
                            selected_regions |-> selected_regions]
                      ELSE cycle_start
    /\ UNCHANGED <<ScanFrame, ocr_active, scale_spin, lock, heap, matched_boxes,
                   paint, feed, pub_value, prev_value, pub_count>>

\* the start of a cycle: boxes = [], search_results = [], and the iterator
\* of selected_regions.items()
W_begin_cycle ==
    /\ worker.pc = "top"
    /\ ocr_active
    /\ LET id == CycleBoxes
       IN  /\ heap' = [heap EXCEPT ![id] = <<>>]
           /\ worker' = [worker EXCEPT !.pc = "next_region",
                                       !.boxes = id,
                                       !.search_results = <<>>,
                                       !.it_pos = 0,
                                       !.it_len = Len(selected_regions)]
    /\ cycle_log' = <<>>
    /\ cycle_start' = IF feed.on
                      THEN [search_model |-> search_model,
                            selected_regions |-> selected_regions]
                      ELSE cycle_start
    /\ UNCHANGED <<ScanFrame, ocr_active, scale_spin, lock, matched_boxes, paint,
                   feed, pub_value, prev_value, pub_count>>

\* an outer handler that goes straight back to the top of the loop
Abort_SkipsSleep ==
    /\ worker' = [ForgetCycle(worker) EXCEPT !.pc = "top",
                                             !.search_results = <<>>]
    /\ heap' = [heap EXCEPT ![worker.boxes] = <<>>]
    /\ cycle_log' = <<>>

\* an exception reaching `except Exception` of the while loop: the cycle
\* ends without publishing and its list is dropped
Abort ==
    /\ worker' = [ForgetCycle(worker) EXCEPT !.pc = "sleep",
                                             !.search_results = <<>>]
    /\ heap' = [heap EXCEPT ![worker.boxes] = <<>>]
    /\ cycle_log' = <<>>

\* one step of `for monitor_idx, region in selected_regions.items()` down to
\* the choice of the monitor
W_next_region ==
    /\ worker.pc = "next_region"
    /\ IF Len(selected_regions) # worker.it_len
       THEN \* RuntimeError: dictionary changed size during iteration,
            \* caught by the outer handler
            Abort
       ELSE IF worker.it_pos >= Len(selected_regions)
       THEN /\ worker' = [ForgetCycle(worker) EXCEPT !.pc = "acquire"]
            /\ UNCHANGED <<heap, cycle_log>>
       ELSE LET entry == selected_regions[worker.it_pos + 1]
            IN  IF entry.region = <<>> \/ entry.idx - 1 >= Len(SctMonitors)
                THEN /\ worker' = [worker EXCEPT !.it_pos = @ + 1]
                     /\ UNCHANGED <<heap, cycle_log>>
                ELSE IF entry.idx - 1 < -Len(SctMonitors)
                THEN \* IndexError, caught by the outer handler
                     Abort
                ELSE /\ worker' = [worker EXCEPT !.it_pos = @ + 1,
                                                 !.pc = "capture",
                                                 !.monitor_idx = entry.idx,
                                                 !.region = entry.region]
                     /\ UNCHANGED <<heap, cycle_log>>
    /\ UNCHANGED <<ScanFrame, ocr_active, scale_spin, lock, matched_boxes, paint,
                   feed, pub_value, prev_value, pub_count, cycle_start>>

\* a capture whose exception is not caught inside the region loop and so
\* reaches the handler of the while loop
W_capture_FailureAborts(outcome) ==
    /\ worker.pc = "capture"
    /\ IF outcome.failed
       THEN Abort
       ELSE /\ cycle_log' =
                   Append(cycle_log,
                          [idx |-> worker.monitor_idx, region |-> worker.region,
                           failed |-> outcome.failed, data |-> outcome.data,
                           pct |-> scale_spin])
            /\ IF search_model.keywords = <<>> \/ outcome.data = <<>>
               THEN worker' = [ForgetRegion(worker) EXCEPT !.pc = "next_region"]
               ELSE worker' = [worker EXCEPT !.pc = "fragment",
                                             !.scale_factor = scale_spin,
                                             !.data = outcome.data,
                                             !.i = 1]
            /\ UNCHANGED heap
    /\ UNCHANGED <<ScanFrame, ocr_active, scale_spin, lock, matched_boxes, paint,
                   feed, pub_value, prev_value, pub_count, cycle_start>>

\* capture, preprocessing and recognition of the region, up to the look at
\* search_model.keywords; outcome is what grab and image_to_data do
W_capture(outcome) ==
    /\ worker.pc = "capture"
    /\ cycle_log' =
           IF feed.on
           THEN Append(cycle_log,
                       [idx |-> worker.monitor_idx, region |-> worker.region,
                        failed |-> outcome.failed, data |-> outcome.data,
                        pct |-> scale_spin])
           ELSE cycle_log
    /\ IF outcome.failed \/ search_model.keywords = <<>> \/ outcome.data = <<>>
       THEN worker' = [ForgetRegion(worker) EXCEPT !.pc = "next_region"]
       ELSE worker' = [worker EXCEPT !.pc = "fragment",
                                     !.scale_factor = scale_spin,
                                     !.data = outcome.data,
                                     !.i = 1]
    /\ UNCHANGED <<ScanFrame, ocr_active, scale_spin, lock, heap, matched_boxes,
                   paint, feed, pub_value, prev_value, pub_count, cycle_start>>

\* one pass of `for i, text in enumerate(data["text"])`; an exception of
\* match_text leaves the loop for the region's handler, so that the
\* fragments after it are not looked at
W_fragment ==
    /\ worker.pc = "fragment"
    /\ IF FragmentRaises(search_model, worker.data[worker.i])
       THEN /\ worker' = [ForgetRegion(worker) EXCEPT !.pc = "next_region"]
            /\ UNCHANGED heap
       ELSE LET yield == FragmentYield(search_model, worker.data[worker.i],
                                       worker.region, worker.scale_factor,
                                       worker.monitor_idx)
            IN  /\ heap' = [heap EXCEPT ![worker.boxes] = @ \o yield.boxes]
                /\ worker' =
                       IF worker.i + 1 > Len(worker.data)
                       THEN [ForgetRegion(worker) EXCEPT
                                !.search_results = @ \o yield.results,
                                !.pc = "next_region"]
                       ELSE [worker EXCEPT
                                !.search_results = @ \o yield.results,
                                !.i = @ + 1]
    /\ UNCHANGED <<ScanFrame, ocr_active, scale_spin, lock, matched_boxes, paint,
                   histVars>>

\* lock.acquire()
W_acquire ==
    /\ worker.pc = "acquire"
    /\ lock = "free"
    /\ lock' = "worker"
    /\ worker' = [worker EXCEPT !.pc = "publish"]
    /\ UNCHANGED <<ScanFrame, ocr_active, scale_spin, heap, matched_boxes, paint,
                   histVars>>

\* matched_boxes = boxes; lock.release()
W_publish ==
    /\ worker.pc = "publish"
    /\ matched_boxes' = worker.boxes
    /\ lock' = "free"
    /\ worker' = [worker EXCEPT !.pc = "emit"]
    /\ pub_value' = heap[worker.boxes]
    /\ prev_value' = IF feed.on THEN pub_value ELSE <<>>
    /\ pub_count' = IF feed.on /\ pub_count < 2 THEN pub_count + 1 ELSE pub_count
    /\ UNCHANGED <<ScanFrame, ocr_active, scale_spin, heap, paint, feed,
                   cycle_log, cycle_start>>

\* update_search_results.emit, refresh_overlay.emit
W_emit ==
    /\ worker.pc = "emit"
    /\ worker' = [worker EXCEPT !.pc = "sleep", !.search_results = <<>>]
    /\ cycle_log' = <<>>
    /\ UNCHANGED <<ScanFrame, ocr_active, scale_spin, lock, heap, matched_boxes,
                   paint, feed, pub_value, prev_value, pub_count, cycle_start>>

\* time.sleep(interval)
W_sleep ==
    /\ worker.pc = "sleep"
    /\ worker' = [worker EXCEPT !.pc = "top"]
    /\ UNCHANGED <<ScanFrame, ocr_active, scale_spin, lock, heap, matched_boxes,
                   paint, histVars>>

(***************************************************************************)
(* The renderer: OverlayWindow.paintEvent.                                 *)
(***************************************************************************)
\* lock.acquire() and the start of the loop over matched_boxes
P_acquire ==
    /\ paint.pc = "idle"
    /\ lock = "free"
    /\ lock' = "paint"
    /\ paint' = [pc |-> "iter", i |-> 1, drawn |-> <<>>]
    /\ UNCHANGED <<ScanFrame, ocr_active, scale_spin, heap, matched_boxes, worker,
                   histVars>>

\* one pass of the loop: a box of an unknown monitor is skipped
P_step ==
    /\ paint.pc = "iter"
    /\ paint.i <= Len(heap[matched_boxes])
    /\ LET box == heap[matched_boxes][paint.i]
       IN  paint' = [paint EXCEPT
                        !.i = @ + 1,
                        !.drawn = IF box[5] \in DOMAIN monitor_info
                                  THEN Append(@, PaintRect(box, monitor_info))
                                  ELSE @]
    /\ UNCHANGED <<ScanFrame, ocr_active, scale_spin, lock, heap, matched_boxes,
                   worker, histVars>>

\* the end of the loop: lock.release()
P_release ==
    /\ paint.pc = "iter"
    /\ paint.i > Len(heap[matched_boxes])
    /\ lock' = "free"
    /\ paint' = PaintIdle
    /\ UNCHANGED <<ScanFrame, ocr_active, scale_spin, heap, matched_boxes, worker,
                   histVars>>

(***************************************************************************)
(* The primary context: handlers of the control panel.  They run on the    *)
(* GUI thread, so none of them runs inside paintEvent.                     *)
(***************************************************************************)
GuiFree == paint.pc = "idle"

\* an add_keyword that stores the keyword as it was typed
add_keyword_NoStrip(m, keyword) ==
    IF Strip(keyword) # <<>>
       /\ ~(\E k \in 1..Len(m.keywords) : m.keywords[k] = keyword)
    THEN [m EXCEPT !.keywords = Append(@, keyword)]
    ELSE m

\* AdvancedSearchModel.add_keyword
add_keyword(m, keyword) ==
    LET kw == Strip(keyword)
    IN  IF kw # <<>> /\ ~(\E k \in 1..Len(m.keywords) : m.keywords[k] = kw)
        THEN [m EXCEPT !.keywords = Append(@, kw)]
        ELSE m

\* AdvancedSearchModel.remove_keyword: list.remove drops the first
\* occurrence
remove_keyword(m, keyword) ==
    IF \E k \in 1..Len(m.keywords) : m.keywords[k] = keyword
    THEN LET at == CHOOSE k \in 1..Len(m.keywords) :
                       /\ m.keywords[k] = keyword
                       /\ \A j \in 1..(k - 1) : m.keywords[j] # keyword
         IN  [m EXCEPT !.keywords =
                 SubSeq(@, 1, at - 1) \o SubSeq(@, at + 1, Len(@))]
    ELSE m

\* AdvancedSearchModel.clear_keywords
clear_keywords(m) == [m EXCEPT !.keywords = <<>>]

EditFrame ==
    <<matchVars, gestureVars, coordVars, loadVars, panelVars, lock, heap,
      matched_boxes,
      worker, paint, feed, pub_value, prev_value, pub_count, cycle_log,
      cycle_start>>

\* ControlPanel.add_keyword with one line in the input box
ui_add_keyword(keyword) ==
    /\ GuiFree
    /\ Len(search_model.keywords) < MaxKeywords
    /\ search_model' = add_keyword(search_model, keyword)
    /\ search_model' # search_model
    /\ UNCHANGED <<EditFrame, regionVars, ocr_active, scale_spin>>

\* ControlPanel.clear_keywords
ui_clear_keywords ==
    /\ GuiFree
    /\ search_model.keywords # <<>>
    /\ search_model' = clear_keywords(search_model)
    /\ UNCHANGED <<EditFrame, regionVars, ocr_active, scale_spin>>

\* ControlPanel.toggle_ocr
toggle_ocr(checked) ==
    /\ GuiFree
    /\ ocr_active # checked
    /\ ocr_active' = checked
    /\ UNCHANGED <<EditFrame, search_model, regionVars, scale_spin>>

\* a stop_search that also empties the published list
stop_search_DropsBoxes ==
    /\ GuiFree
    /\ ocr_active
    /\ ocr_active' = FALSE
    /\ heap' = [heap EXCEPT ![matched_boxes] = <<>>]
    /\ UNCHANGED <<matchVars, gestureVars, coordVars, loadVars, panelVars, lock,
                   matched_boxes, worker, paint, histVars, search_model,
                   regionVars, scale_spin>>

\* ControlPanel.stop_search
stop_search ==
    /\ GuiFree
    /\ ocr_active
    /\ ocr_active' = FALSE
    /\ UNCHANGED <<EditFrame, search_model, regionVars, scale_spin>>

\* the region_selected signal reaching ControlPanel.on_region_selected
region_selected(region, monitor_index) ==
    /\ GuiFree
    /\ selected_regions' = on_region_selected(selected_regions, region, monitor_index)
    /\ selected_regions' # selected_regions
    /\ UNCHANGED <<EditFrame, search_model, monitor_info, ocr_active, scale_spin>>

\* ControlPanel.clear_all_regions
clear_all_regions ==
    /\ GuiFree
    /\ selected_regions # <<>>
    /\ selected_regions' = <<>>
    /\ UNCHANGED <<EditFrame, search_model, monitor_info, ocr_active, scale_spin>>

\* region selection together with the button that clears every region
NextRegistry ==
    \/ NextRegion
    \/ clear_all_regions

SpecRegistry == InitRegion /\ [][NextRegistry]_vars

(***************************************************************************)
(* The program: scan thread, renderer and control panel.                   *)
(***************************************************************************)
ScanKeywords == {K_cat}

RegionOf(m) == IF m = 1 THEN R1 ELSE R2

\* the configuration load_config can have restored
InitModels ==
    {[NewSearchModel EXCEPT !.keywords = kws, !.logic = l] :
        kws \in {<<>>, <<K_cat, K_dog>>}, l \in Logics}

\* the frames of the recognizer in the concurrent program
ProgramFrames == {<<FragA>>}

Init ==
    /\ search_model \in InitModels
    /\ test_text = <<>>
    /\ test_out = NoTest
    /\ selected_regions \in InitRegistries
    /\ monitor_info = get_monitor_info
    /\ is_selecting_region = FALSE
    /\ region_window = NoWindow
    /\ last_release = NoRelease
    /\ coord = NoCoord
    /\ ScanAtRest

Next ==
    \/ W_idle
    \/ W_idle_wake
    \/ W_begin_cycle
    \/ W_next_region
    \/ \E outcome \in OutcomesOf(ProgramFrames) : W_capture(outcome)
    \/ W_fragment
    \/ W_acquire
    \/ W_publish
    \/ W_emit
    \/ W_sleep
    \/ P_acquire
    \/ P_step
    \/ P_release
    \/ \E kw \in ScanKeywords : ui_add_keyword(kw)
    \/ ui_clear_keywords
    \/ \E b \in BOOLEAN : toggle_ocr(b)
    \/ stop_search
    \/ \E m \in MonitorIds : region_selected(RegionOf(m), m)
    \/ clear_all_regions

Spec == Init /\ [][Next]_vars

\* the steps of the scan thread and of paintEvent
WorkerStep ==
    \/ W_idle
    \/ W_idle_wake
    \/ W_begin_cycle
    \/ W_next_region
    \/ \E outcome \in OutcomesOf(ProgramFrames) : W_capture(outcome)
    \/ W_fragment
    \/ W_publish
    \/ W_emit
    \/ W_sleep

PaintStep == P_step \/ P_release

\* the program with threads that keep running, one monitor's region being
\* set and cleared: the scan thread takes its next step, a paintEvent under
\* way finishes, and a worker waiting in lock.acquire() gets the lock, which
\* every paintEvent releases again
InitLive ==
    /\ search_model = [NewSearchModel EXCEPT !.keywords = <<K_cat, K_dog>>]
    /\ test_text = <<>>
    /\ test_out = NoTest
    /\ selected_regions \in {<<>>, <<[idx |-> 1, region |-> R1]>>}
    /\ monitor_info = get_monitor_info
    /\ is_selecting_region = FALSE
    /\ region_window = NoWindow
    /\ last_release = NoRelease
    /\ coord = NoCoord
    /\ ScanAtRest

NextLive ==
    \/ WorkerStep
    \/ W_acquire
    \/ P_acquire
    \/ PaintStep
    \/ \E b \in BOOLEAN : toggle_ocr(b)
    \/ region_selected(R1, 1)
    \/ clear_all_regions

SpecLive ==
    /\ InitLive
    /\ [][NextLive]_vars
    /\ WF_vars(WorkerStep)
    /\ WF_vars(PaintStep)
    /\ SF_vars(W_acquire)

(***************************************************************************)
(* The scan loop alone, scanning enabled, with a recognizer that returns   *)
(* the same output for a monitor in every cycle.                           *)
(***************************************************************************)
ScanFlags ==
    {[case_sensitive |-> FALSE, partial_match |-> TRUE, use_regex |-> FALSE,
      whole_word |-> FALSE],
     [case_sensitive |-> FALSE, partial_match |-> TRUE, use_regex |-> FALSE,
      whole_word |-> TRUE],
     [case_sensitive |-> TRUE, partial_match |-> TRUE, use_regex |-> TRUE,
      whole_word |-> FALSE]}

ScanKeywordLists ==
    {<<>>, <<K_cat, K_dog>>, <<K_dog, K_cat>>, <<K_dog>>, <<K_bracket, K_c_dot_t>>}

ScanModels ==
    {[keywords |-> kws, logic |-> l, case_sensitive |-> f.case_sensitive,
      partial_match |-> f.partial_match, use_regex |-> f.use_regex,
      whole_word |-> f.whole_word] :
        kws \in ScanKeywordLists, l \in Logics, f \in ScanFlags}

ScanRegistries ==
    InitRegistries \cup
        {<<[idx |-> 2, region |-> R2], [idx |-> 1, region |-> R1]>>}

ScanScalePcts == {50, 56, 100}

InitScan ==
    /\ search_model \in ScanModels
    /\ test_text = <<>>
    /\ test_out = NoTest
    /\ selected_regions \in ScanRegistries
    /\ monitor_info = get_monitor_info
    /\ is_selecting_region = FALSE
    /\ region_window = NoWindow
    /\ last_release = NoRelease
    /\ coord = NoCoord
    /\ ocr_active = TRUE
    /\ scale_spin \in ScanScalePcts
    /\ lock = "free"
    /\ heap = [id \in ListIds |-> <<>>]
    /\ matched_boxes = 1
    /\ worker = WorkerAtTop
    /\ paint = PaintIdle
    /\ feed \in [on : {TRUE}, of : [MonitorIds -> Outcomes]]
    /\ pub_value = <<>>
    /\ prev_value = <<>>
    /\ pub_count = 0
    /\ cycle_log = <<>>
    /\ cycle_start = NoStart
    /\ last_load = NoLoad
    /\ panel = PanelOf(search_model)
    /\ last_start = NotStarted

NextScan ==
    \/ W_begin_cycle
    \/ W_next_region
    \/ W_capture(feed.of[worker.monitor_idx])
    \/ W_fragment
    \/ W_acquire
    \/ W_publish
    \/ W_emit
    \/ W_sleep

SpecScan == InitScan /\ [][NextScan]_vars

(***************************************************************************)
(* The scan loop alone in regex mode.                                      *)
(***************************************************************************)
RegexKeywordLists ==
    {<<K_c_dot_t, K_cat>>, <<K_dog, K_repeat>>, <<K_cat, K_dog>>,
     <<K_bracket, K_cat>>}

RegexModels ==
    {[NewSearchModel EXCEPT !.keywords = kws, !.logic = l, !.use_regex = TRUE] :
        kws \in RegexKeywordLists, l \in Logics}

RegexFrames == {<<FragB, FragA>>, <<FragA, FragBlank, FragB>>}

InitRegex ==
    /\ search_model \in RegexModels
    /\ test_text = <<>>
    /\ test_out = NoTest
    /\ selected_regions \in ScanRegistries
    /\ monitor_info = get_monitor_info
    /\ is_selecting_region = FALSE
    /\ region_window = NoWindow
    /\ last_release = NoRelease
    /\ coord = NoCoord
    /\ ocr_active = TRUE
    /\ scale_spin = 100
    /\ lock = "free"
    /\ heap = [id \in ListIds |-> <<>>]
    /\ matched_boxes = 1
    /\ worker = WorkerAtTop
    /\ paint = PaintIdle
    /\ feed \in [on : {TRUE}, of : [MonitorIds -> OutcomesOf(RegexFrames)]]
    /\ pub_value = <<>>
    /\ prev_value = <<>>
    /\ pub_count = 0
    /\ cycle_log = <<>>
    /\ cycle_start = NoStart
    /\ last_load = NoLoad
    /\ panel = PanelOf(search_model)
    /\ last_start = NotStarted

SpecRegex == InitRegex /\ [][NextScan]_vars

(***************************************************************************)
(* ControlPanel.load_config, called once when the control panel is built.  *)
(***************************************************************************)
\* int(monitor_idx_str): an optional sign and decimal digits; anything else
\* raises ValueError
ParseInt(t) ==
    LET neg == t # <<>> /\ t[1] = "-"
        body == IF neg THEN Tail(t) ELSE t
    IN  IF body # <<>> /\ \A k \in 1..Len(body) : IsDigit(body[k])
        THEN [ok |-> TRUE,
              value |-> IF neg THEN -DigitsValue(body, 0) ELSE DigitsValue(body, 0)]
        ELSE [ok |-> FALSE, value |-> 0]

\* the loop over config['regions'].items(): the entries before a key that
\* is no integer are already stored when int() raises
RECURSIVE LoadRegions(_, _, _)
LoadRegions(entries, k, regions) ==
    IF k > Len(entries)
    THEN [ok |-> TRUE, regions |-> regions]
    ELSE LET monitor_idx == ParseInt(entries[k].key)
         IN  IF ~monitor_idx.ok
             THEN [ok |-> FALSE, regions |-> regions]
             ELSE LoadRegions(entries, k + 1,
                              DictSet(regions, monitor_idx.value,
                                      entries[k].region))

\* for line in lines: keyword = line.strip(); if keyword: add_keyword
RECURSIVE AddLines(_, _, _)
AddLines(m, lines, k) ==
    IF k > Len(lines)
    THEN m
    ELSE AddLines(IF Strip(lines[k]) # <<>>
                  THEN add_keyword(m, Strip(lines[k]))
                  ELSE m,
                  lines, k + 1)

\* '\n'.join(lines)
RECURSIVE JoinLines(_)
JoinLines(lines) ==
    IF lines = <<>> THEN <<>>
    ELSE IF Len(lines) = 1 THEN lines[1]
    ELSE lines[1] \o <<"\n">> \o JoinLines(Tail(lines))

\* text.split('\n'): cur is the line being read, acc the lines before it
RECURSIVE SplitFrom(_, _, _, _)
SplitFrom(text, k, cur, acc) ==
    IF k > Len(text)
    THEN Append(acc, cur)
    ELSE IF text[k] = "\n"
         THEN SplitFrom(text, k + 1, <<>>, Append(acc, cur))
         ELSE SplitFrom(text, k + 1, Append(cur, text[k]), acc)

SplitLines(text) == SplitFrom(text, 1, <<>>, <<>>)

\* QSpinBox.setValue on scale_spin, whose range is 50..200
ClampScale(v) == IF v < 50 THEN 50 ELSE IF v > 200 THEN 200 ELSE v

\* the contents of ocr_config.json in the model
RegionFiles ==
    {<<>>,
     <<[key |-> <<"1">>, region |-> R1]>>,
     <<[key |-> <<"1">>, region |-> R1], [key |-> <<"2">>, region |-> R2]>>,
     <<[key |-> <<"1">>, region |-> R1], [key |-> <<"x">>, region |-> R2]>>,
     <<[key |-> <<"x">>, region |-> R1], [key |-> <<"1">>, region |-> R1]>>,
     <<[key |-> <<"1", "0">>, region |-> R1], [key |-> <<"-", "2">>, region |-> R2]>>}

KeywordFiles ==
    {[kind |-> "text", lines |-> <<>>],
     [kind |-> "text", lines |-> <<K_cat, K_dog>>],
     [kind |-> "text", lines |-> <<<<" ">> \o K_cat \o <<" ">>, <<>>, K_cat>>],
     [kind |-> "bad", lines |-> <<>>]}

ConfigFiles ==
    [state : {"ok"}, regions : RegionFiles, keywords : KeywordFiles,
     logic : Logics, use_regex : {"false", "true", "bad"},
     scale : {"100", "56", "250", "bad"}]
    \cup
    [state : {"missing", "unreadable", "invalid"}, regions : {<<>>},
     keywords : {[kind |-> "text", lines |-> <<>>]}, logic : {"OR"},
     use_regex : {"false"}, scale : {"100"}]

ScaleOf(field) == IF field = "56" THEN 56 ELSE IF field = "250" THEN 250 ELSE 100

\* load_config on the file: everything assigned before the first exception
\* stays assigned; the last statement reached names where it stopped
load_config(file) ==
    /\ ~last_load.done
    /\ LET loaded == LoadRegions(file.regions, 1, selected_regions)
           with_keywords ==
               IF file.keywords.lines # <<>>
               THEN AddLines(clear_keywords(search_model), file.keywords.lines, 1)
               ELSE search_model
           with_options ==
               [with_keywords EXCEPT !.logic = file.logic,
                                     !.use_regex = (file.use_regex = "true")]
           \* keywords_input.setPlainText, the radio buttons and the three
           \* check boxes set before regex_check
           with_text ==
               [panel EXCEPT !.keywords_input = JoinLines(file.keywords.lines),
                             !.or_radio = (file.logic = "OR"),
                             !.case_sensitive_check = FALSE,
                             !.partial_match_check = TRUE,
                             !.whole_word_check = FALSE]
           with_checks ==
               [with_text EXCEPT !.regex_check = (file.use_regex = "true")]
           Result(failed_at, regions, m, scale, widgets) ==
               /\ last_load' = [done |-> TRUE, failed_at |-> failed_at]
               /\ selected_regions' = regions
               /\ search_model' = m
               /\ scale_spin' = scale
               /\ panel' = widgets
       IN  IF file.state = "missing"
           THEN Result("none", selected_regions, search_model, scale_spin, panel)
           ELSE IF file.state = "unreadable"
           THEN Result("open", selected_regions, search_model, scale_spin, panel)
           ELSE IF file.state = "invalid"
           THEN Result("json", selected_regions, search_model, scale_spin, panel)
           ELSE IF ~loaded.ok
           THEN Result("regions", loaded.regions, search_model, scale_spin, panel)
           ELSE IF file.keywords.kind = "bad"
           THEN Result("keywords", loaded.regions, search_model, scale_spin,
                       panel)
           ELSE IF file.use_regex = "bad"
           THEN Result("options", loaded.regions, with_keywords, scale_spin,
                       with_text)
           ELSE IF file.scale = "bad"
           THEN Result("scale", loaded.regions, with_options, scale_spin,
                       with_checks)
           ELSE \* `if not silent`: silent is no name of load_config
                Result("silent", loaded.regions, with_options,
                       ClampScale(ScaleOf(file.scale)), with_checks)
    /\ UNCHANGED <<matchVars, monitor_info, gestureVars, coordVars, ocr_active,
                   lock, heap, matched_boxes, worker, paint, histVars,
                   last_start>>

InitLoad ==
    /\ search_model = NewSearchModel
    /\ test_text = <<>>
    /\ test_out = NoTest
    /\ selected_regions = <<>>
    /\ monitor_info = get_monitor_info
    /\ is_selecting_region = FALSE
    /\ region_window = NoWindow
    /\ last_release = NoRelease
    /\ coord = NoCoord
    /\ ScanAtRest

NextLoad == \E file \in ConfigFiles : load_config(file)

SpecLoad == InitLoad /\ [][NextLoad]_vars

(***************************************************************************)
(* The keyword list under its three methods.                               *)
(***************************************************************************)
MaxKept == 3

\* what a caller can pass: keywords, padded and blank strings
RawKeywords ==
    {K_cat, K_dog, K_Cat, K_apple, K_banana, K_c_dot_t,
     <<" ">> \o K_cat, K_dog \o <<" ", " ">>, <<" ", " ">>, <<>>}

KeywordFrame ==
    <<matchVars, regionVars, gestureVars, coordVars, scanVars, histVars,
      loadVars, panelVars>>

call_add_keyword(keyword) ==
    /\ Len(search_model.keywords) < MaxKept
    /\ search_model' = add_keyword(search_model, keyword)
    /\ UNCHANGED KeywordFrame

call_remove_keyword(keyword) ==
    /\ search_model' = remove_keyword(search_model, keyword)
    /\ UNCHANGED KeywordFrame

call_clear_keywords ==
    /\ search_model' = clear_keywords(search_model)
    /\ UNCHANGED KeywordFrame

NextKeywords ==
    \/ \E keyword \in RawKeywords : call_add_keyword(keyword)
    \/ \E keyword \in RawKeywords : call_remove_keyword(keyword)
    \/ call_clear_keywords

SpecKeywords == InitLoad /\ [][NextKeywords]_vars

(***************************************************************************)
(* ControlPanel.start_search and stop_search.                              *)
(***************************************************************************)
\* a start_search that adds the lines to the keywords already configured
StartKeywords_Keeps(m, text) == AddLines(m, SplitLines(text), 1)

\* clear_keywords, then add_keyword on every non-blank line of the text
StartKeywords(m, text) == AddLines(clear_keywords(m), SplitLines(text), 1)

\* update_search_model and update_logic: the widgets copied into the model
update_search_model(m) ==
    [m EXCEPT !.case_sensitive = panel.case_sensitive_check,
              !.partial_match = panel.partial_match_check,
              !.whole_word = panel.whole_word_check,
              !.use_regex = panel.regex_check,
              !.logic = IF panel.or_radio THEN "OR" ELSE "AND"]

\* ControlPanel.start_search: with no keyword after the input box was read
\* it warns and returns
start_search ==
    /\ GuiFree
    /\ ~last_start.done
    /\ LET text == Strip(panel.keywords_input)
           with_keywords == IF text # <<>>
                            THEN StartKeywords(search_model, text)
                            ELSE search_model
       IN  IF with_keywords.keywords = <<>>
           THEN /\ search_model' = with_keywords
                /\ last_start' = [done |-> TRUE, warned |-> TRUE]
                /\ UNCHANGED ocr_active
           ELSE /\ search_model' = update_search_model(with_keywords)
                /\ ocr_active' = TRUE
                /\ last_start' = [done |-> TRUE, warned |-> FALSE]
    /\ UNCHANGED <<matchVars, regionVars, gestureVars, coordVars, loadVars,
                   panel, scale_spin, lock, heap, matched_boxes, worker, paint,
                   histVars>>

\* what the input box can hold: nothing, blanks, one keyword, padded and
\* repeated lines with an empty line between them
StartTexts ==
    {<<>>,
     <<" ", "\n", " ">>,
     K_cat,
     <<" ">> \o K_cat \o <<" ", "\n", "\n">> \o K_dog \o <<"\n">> \o K_cat,
     K_dog \o <<"\n">> \o K_Cat \o <<"\n">>,
     <<"\n", " ">> \o K_banana}

StartModels ==
    {[NewSearchModel EXCEPT !.keywords = kws, !.logic = l, !.whole_word = w] :
        kws \in {<<>>, <<K_dog, K_banana>>}, l \in Logics, w \in BOOLEAN}

\* the radio button can differ from the model's logic after a load_config
\* that failed between setting the one and the other
InitStart ==
    /\ search_model \in StartModels
    /\ test_text = <<>>
    /\ test_out = NoTest
    /\ selected_regions = <<>>
    /\ monitor_info = get_monitor_info
    /\ is_selecting_region = FALSE
    /\ region_window = NoWindow
    /\ last_release = NoRelease
    /\ coord = NoCoord
    /\ ocr_active \in BOOLEAN
    /\ scale_spin = 100
    /\ lock = "free"
    /\ heap = [id \in ListIds |-> <<>>]
    /\ matched_boxes = 1
    /\ worker = WorkerAtTop
    /\ paint = PaintIdle
    /\ feed = NoFeed
    /\ pub_value = <<>>
    /\ prev_value = <<>>
    /\ pub_count = 0
    /\ cycle_log = <<>>
    /\ cycle_start = NoStart
    /\ last_load = NoLoad
    /\ panel \in {[PanelOf(search_model) EXCEPT !.keywords_input = text,
                                               !.or_radio = b] :
                      text \in StartTexts, b \in BOOLEAN}
    /\ last_start = NotStarted

NextStart ==
    \/ start_search
    \/ stop_search

SpecStart == InitStart /\ [][NextStart]_vars

(***************************************************************************)
(* The scan loop on a registry that load_config filled with monitor ids    *)
(* of any integer value.                                                   *)
(***************************************************************************)
\* the monitor that monitors[monitor_idx - 1] is, for the ids the check at
\* the head of the region loop lets through: a negative index counts from
\* the end of the list
CapturedMonitor(monitor_idx) ==
    IF monitor_idx - 1 >= 0 THEN monitor_idx ELSE Len(SctMonitors) + monitor_idx

StaleRegistries ==
    {<<[idx |-> 1, region |-> R1], [idx |-> 2, region |-> R2]>>,
     <<[idx |-> 3, region |-> R1], [idx |-> 1, region |-> R1]>>,
     <<[idx |-> 0, region |-> R2], [idx |-> 1, region |-> R1]>>,
     <<[idx |-> 1, region |-> R1], [idx |-> -1, region |-> R1]>>,
     <<[idx |-> -2, region |-> R1], [idx |-> 1, region |-> R1]>>,
     <<[idx |-> 0, region |-> R1]>>}

StaleModels ==
    {[NewSearchModel EXCEPT !.keywords = kws] :
        kws \in {<<K_cat, K_dog>>, <<K_dog>>}}

InitStale ==
    /\ search_model \in StaleModels
    /\ test_text = <<>>
    /\ test_out = NoTest
    /\ selected_regions \in StaleRegistries
    /\ monitor_info = get_monitor_info
    /\ is_selecting_region = FALSE
    /\ region_window = NoWindow
    /\ last_release = NoRelease
    /\ coord = NoCoord
    /\ ocr_active = TRUE
    /\ scale_spin = 100
    /\ lock = "free"
    /\ heap = [id \in ListIds |-> <<>>]
    /\ matched_boxes = 1
    /\ worker = WorkerAtTop
    /\ paint = PaintIdle
    /\ feed \in [on : {TRUE}, of : [MonitorIds -> Outcomes]]
    /\ pub_value = <<>>
    /\ prev_value = <<>>
    /\ pub_count = 0
    /\ cycle_log = <<>>
    /\ cycle_start = NoStart
    /\ last_load = NoLoad
    /\ panel = PanelOf(search_model)
    /\ last_start = NotStarted

NextStale ==
    \/ W_begin_cycle
    \/ W_next_region
    \/ W_capture(feed.of[CapturedMonitor(worker.monitor_idx)])
    \/ W_fragment
    \/ W_acquire
    \/ W_publish
    \/ W_emit
    \/ W_sleep

SpecStale == InitStale /\ [][NextStale]_vars

(***************************************************************************)
(* The scan loop with a capture or recognizer call that may not return.    *)
(***************************************************************************)
\* sct.grab or pytesseract.image_to_data does not return: the thread stays
\* inside the call
W_hang ==
    /\ worker.pc = "capture"
    /\ worker' = [worker EXCEPT !.pc = "hung"]
    /\ UNCHANGED <<ScanFrame, ocr_active, scale_spin, lock, heap, matched_boxes,
                   paint, histVars>>

InitHang ==
    /\ search_model = [NewSearchModel EXCEPT !.keywords = <<K_cat, K_dog>>]
    /\ test_text = <<>>
    /\ test_out = NoTest
    /\ selected_regions \in ScanRegistries
    /\ monitor_info = get_monitor_info
    /\ is_selecting_region = FALSE
    /\ region_window = NoWindow
    /\ last_release = NoRelease
    /\ coord = NoCoord
    /\ ocr_active = TRUE
    /\ scale_spin = 100
    /\ lock = "free"
    /\ heap = [id \in ListIds |-> <<>>]
    /\ matched_boxes = 1
    /\ worker = WorkerAtTop
    /\ paint = PaintIdle
    /\ feed \in [on : {TRUE}, of : [MonitorIds -> OutcomesOf(ProgramFrames)]]
    /\ pub_value = <<>>
    /\ prev_value = <<>>
    /\ pub_count = 0
    /\ cycle_log = <<>>
    /\ cycle_start = NoStart
    /\ last_load = NoLoad
    /\ panel = PanelOf(search_model)
    /\ last_start = NotStarted

NextHang ==
    \/ W_begin_cycle
    \/ W_next_region
    \/ W_capture(feed.of[worker.monitor_idx])
    \/ W_hang
    \/ W_fragment
    \/ W_acquire
    \/ W_publish
    \/ W_emit
    \/ W_sleep

\* the scan thread takes a step whenever it has one to take
SpecHang == InitHang /\ [][NextHang]_vars /\ WF_vars(NextHang)

(***************************************************************************)
(* The scan loop with replayed recognizer output, while the control panel  *)
(* edits the keyword list.                                                 *)
(***************************************************************************)
InitEdit ==
    /\ search_model \in InitModels
    /\ test_text = <<>>
    /\ test_out = NoTest
    /\ selected_regions \in ScanRegistries
    /\ monitor_info = get_monitor_info
    /\ is_selecting_region = FALSE
    /\ region_window = NoWindow
    /\ last_release = NoRelease
    /\ coord = NoCoord
    /\ ocr_active = TRUE
    /\ scale_spin = 100
    /\ lock = "free"
    /\ heap = [id \in ListIds |-> <<>>]
    /\ matched_boxes = 1
    /\ worker = WorkerAtTop
    /\ paint = PaintIdle
    /\ feed \in [on : {TRUE}, of : [MonitorIds -> OutcomesOf(ProgramFrames)]]
    /\ pub_value = <<>>
    /\ prev_value = <<>>
    /\ pub_count = 0
    /\ cycle_log = <<>>
    /\ cycle_start = NoStart
    /\ last_load = NoLoad
    /\ panel = PanelOf(search_model)
    /\ last_start = NotStarted

NextEdit ==
    \/ W_begin_cycle
    \/ W_next_region
    \/ W_capture(feed.of[worker.monitor_idx])
    \/ W_fragment
    \/ W_acquire
    \/ W_publish
    \/ W_emit
    \/ W_sleep
    \/ \E kw \in ScanKeywords : ui_add_keyword(kw)
    \/ ui_clear_keywords

SpecEdit == InitEdit /\ [][NextEdit]_vars

(***************************************************************************)
(* One fragment followed from the recognizer to the screen: the box the    *)
(* scan loop makes of it, then the rectangle paintEvent draws for it.      *)
(***************************************************************************)
CoordRegions == {R1, R2}

CoordFrags ==
    [text : {T_cat_dog}, left : LocalValues, top : LocalValues,
     width : {28, 40}, height : {12, 14}]

\* boxes.append((x, y, w, h, monitor_idx, keyword_idx)) for the fragment
MakeBox ==
    /\ coord.phase = "recognized"
    /\ coord' = [coord EXCEPT
                    !.phase = "boxed",
                    !.box = BoxOf(coord.region, coord.frag, coord.pct,
                                  coord.monitor_idx, 0)]
    /\ UNCHANGED <<search_model, matchVars, regionVars, gestureVars, scanVars,
                   histVars, loadVars, panelVars>>

\* the pass of paintEvent's loop on that box
DrawBox ==
    /\ coord.phase = "boxed"
    /\ coord.box[5] \in DOMAIN monitor_info
    /\ coord' = [coord EXCEPT
                    !.phase = "drawn",
                    !.drawn = PaintRect(coord.box, monitor_info)]
    /\ UNCHANGED <<search_model, matchVars, regionVars, gestureVars, scanVars,
                   histVars, loadVars, panelVars>>

InitCoord ==
    /\ search_model = NewSearchModel
    /\ test_text = <<>>
    /\ test_out = NoTest
    /\ selected_regions = <<>>
    /\ monitor_info = get_monitor_info
    /\ is_selecting_region = FALSE
    /\ region_window = NoWindow
    /\ last_release = NoRelease
    /\ coord \in [phase : {"recognized"}, monitor_idx : MonitorIds,
                  region : CoordRegions, frag : CoordFrags, pct : ScalePcts,
                  box : {<<>>}, drawn : {<<>>}]
    /\ ScanAtRest

NextCoord ==
    \/ MakeBox
    \/ DrawBox

SpecCoord == InitCoord /\ [][NextCoord]_vars

(***************************************************************************)
(* Reference notions used to state the match-engine claims.                *)
(***************************************************************************)
Norm(m, s) == IF m.case_sensitive THEN s ELSE Lower(s)

\* s[i..j] is one whole word of s: only word characters, and no word
\* character directly before or after it
IsWordAt(s, i, j) ==
    /\ 1 <= i /\ i <= j /\ j <= Len(s)
    /\ \A k \in i..j : IsWordChar(s[k])
    /\ (i = 1 \/ ~IsWordChar(s[i - 1]))
    /\ (j = Len(s) \/ ~IsWordChar(s[j + 1]))

\* the keyword equals one whole word token of the text
IsWholeToken(m, keyword, text) ==
    \E i, j \in 1..Len(text) :
        /\ IsWordAt(text, i, j)
        /\ Norm(m, SubSeq(text, i, j)) = Norm(m, keyword)

IsSubstring(m, keyword, text) ==
    \E i \in 1..(Len(text) + 1) :
        /\ i + Len(keyword) - 1 <= Len(text)
        /\ \A k \in 1..Len(keyword) :
               Norm(m, text)[i + k - 1] = Norm(m, keyword)[k]

\* the literal per-keyword verdict, mode by mode
LiteralVerdict(m, keyword, text) ==
    IF m.partial_match
    THEN IF m.whole_word THEN IsWholeToken(m, keyword, text)
                         ELSE IsSubstring(m, keyword, text)
    ELSE Norm(m, keyword) = Norm(m, text)

\* the per-keyword verdict: a well-formed pattern is searched as a regular
\* expression, a malformed one falls back to the literal verdict
KeywordVerdict(m, keyword, text) ==
    IF m.use_regex /\ ~IsMalformed(keyword)
    THEN re_search(keyword, text, ~m.case_sensitive)
    ELSE LiteralVerdict(m, keyword, text)

SomeKeyword(m, text, V(_, _, _)) ==
    \E k \in 1..Len(m.keywords) : V(m, m.keywords[k], text)

EveryKeyword(m, text, V(_, _, _)) ==
    \A k \in 1..Len(m.keywords) : V(m, m.keywords[k], text)

\* C1: for every configuration with at least one keyword and every text,
\* match_text is true under OR iff some keyword individually matches and
\* under AND iff every keyword individually matches.
C1_MatchTextCombinesVerdicts ==
    (test_out.done /\ search_model.keywords # <<>>) =>
        (test_out.result <=>
            IF search_model.logic = "OR"
            THEN SomeKeyword(search_model, test_text, KeywordVerdict)
            ELSE EveryKeyword(search_model, test_text, KeywordVerdict))

\* C3: with whole_word on in literal mode, for either setting of
\* partial_match, a keyword matches iff it equals one whole word token of
\* the text (so match_text is true iff some/every keyword is such a token).
C3_WholeWordEitherPartial ==
    (/\ test_out.done
     /\ search_model.keywords # <<>>
     /\ search_model.whole_word
     /\ ~search_model.use_regex) =>
        (test_out.result <=>
            IF search_model.logic = "OR"
            THEN SomeKeyword(search_model, test_text, IsWholeToken)
            ELSE EveryKeyword(search_model, test_text, IsWholeToken))

IsValidPatternMatching(m, keyword, text) ==
    /\ ~IsMalformed(keyword)
    /\ re_search(keyword, text, ~m.case_sensitive)

\* C4: in regex mode under OR, with one malformed pattern among valid ones
\* in any order, a valid pattern that matches the text as a regular
\* expression makes match_text true.
C4_MalformedDoesNotSuppress ==
    (/\ test_out.done
     /\ search_model.use_regex
     /\ search_model.logic = "OR"
     /\ Cardinality({k \in 1..Len(search_model.keywords) :
                        IsMalformed(search_model.keywords[k])}) = 1
     /\ SomeKeyword(search_model, test_text, IsValidPatternMatching)) =>
        test_out.result

\* the configured keywords whose literal verdict is true, in configuration
\* order
RECURSIVE VerdictList(_, _, _)
VerdictList(m, text, i) ==
    IF i > Len(m.keywords)
    THEN <<>>
    ELSE (IF LiteralVerdict(m, m.keywords[i], text)
          THEN <<m.keywords[i]>> ELSE <<>>)
         \o VerdictList(m, text, i + 1)

GestureW == Abs(region_window.start[1] - region_window.end[1])

GestureH == Abs(region_window.start[2] - region_window.end[2])

\* the global centre of the dragged rectangle lies on some monitor
GestureOnMonitor ==
    LET cx == Min(region_window.start[1], region_window.end[1])
              + (GestureW \div 2) + WindowX(region_window)
        cy == Min(region_window.start[2], region_window.end[2])
              + (GestureH \div 2) + WindowY(region_window)
    IN  \E idx \in DOMAIN monitor_info :
            /\ cx \in monitor_info[idx].left..monitor_info[idx].right
            /\ cy \in monitor_info[idx].top..monitor_info[idx].bottom

StoredSizes == {<<selected_regions[k].region[3], selected_regions[k].region[4]>> :
                   k \in 1..Len(selected_regions)}

\* C9: the minimum size is inclusive: a released gesture is accepted and
\* stored, with its own width and height, iff width >= 50, height >= 30 and
\* its monitor is known (so 50 x 30 is accepted); otherwise nothing is
\* emitted and the region registry is unchanged.
C9_MinimumSizeInclusive ==
    last_release.done =>
        /\ last_release.emitted <=>
               (GestureW >= 50 /\ GestureH >= 30 /\ GestureOnMonitor)
        /\ last_release.emitted =>
               /\ <<GestureW, GestureH>> \in StoredSizes
               /\ Len(selected_regions) >= Len(last_release.before)
        /\ ~last_release.emitted => selected_regions = last_release.before

C9_Witness ==
    /\ last_release.done
    /\ last_release.emitted
    /\ GestureW = 50
    /\ GestureH = 30
    /\ <<50, 30>> \in StoredSizes

C9_WitnessRejected ==
    /\ last_release.done
    /\ ~last_release.emitted
    /\ GestureW = 49
    /\ GestureH >= 30

(***************************************************************************)
(* Scan-cycle claims.                                                      *)
(***************************************************************************)
NonBlank(frag) == Strip(frag.text) # <<>>

\* how many non-empty fragments of the regions recognized in this cycle the
\* combined boolean of match_text accepts
RECURSIVE AcceptedCount(_, _, _)
AcceptedCount(m, log, k) ==
    IF k > Len(log)
    THEN 0
    ELSE (IF log[k].failed
          THEN 0
          ELSE Len(SelectSeq(log[k].data,
                             LAMBDA f : NonBlank(f) /\ match_text(m, Strip(f.text)))))
         + AcceptedCount(m, log, k + 1)

\* C2: in a cycle with a non-empty keyword list, the published list holds
\* exactly one box for each non-empty recognized fragment for which
\* match_text is true, and none for any other fragment (so with [cat, dog]
\* under AND 'the cat and the dog' is published and 'only the cat' is not).
C2_BoxIffCombinedBoolean ==
    (worker.pc = "emit" /\ search_model.keywords # <<>>) =>
        Len(pub_value) = AcceptedCount(search_model, cycle_log, 1)

\* C5: the position drawn for a box is, on each axis, monitor origin +
\* region offset + floor(local offset / scale factor), and its size is
\* floor(local size / scale factor), for every scale percentage of the model.
C5_GlobalIsOriginPlusRegionPlusFloor ==
    coord.phase = "drawn" =>
        LET origin == monitor_info[coord.monitor_idx]
            Floor(v) == (v * 100) \div coord.pct
        IN  /\ coord.drawn.global_x =
                   origin.left + coord.region[1] + Floor(coord.frag.left)
            /\ coord.drawn.global_y =
                   origin.top + coord.region[2] + Floor(coord.frag.top)
            /\ coord.drawn.w = Floor(coord.frag.width)
            /\ coord.drawn.h = Floor(coord.frag.height)

\* what a cycle is given: each configured region, in the registry's order,
\* with the outcome of its capture and recognition
CycleInputs ==
    [k \in 1..Len(selected_regions) |->
        [idx |-> selected_regions[k].idx,
         region |-> selected_regions[k].region,
         failed |-> feed.of[selected_regions[k].idx].failed,
         data |-> feed.of[selected_regions[k].idx].data,
         pct |-> scale_spin]]

\* the boxes the fragment loop derives from the fragments k.. of one region
RECURSIVE DataBoxes(_, _, _)
DataBoxes(m, e, k) ==
    IF k > Len(e.data)
    THEN <<>>
    ELSE FragmentYield(m, e.data[k], e.region, e.pct, e.idx).boxes
         \o DataBoxes(m, e, k + 1)

\* the boxes derived from the regions k.. that did not fail
RECURSIVE DerivedBoxes(_, _, _)
DerivedBoxes(m, inputs, k) ==
    IF k > Len(inputs)
    THEN <<>>
    ELSE (IF inputs[k].failed THEN <<>> ELSE DataBoxes(m, inputs[k], 1))
         \o DerivedBoxes(m, inputs, k + 1)

\* C6: whichever regions fail to be captured or recognized, every configured
\* region is still captured in the cycle, the cycle ends by publishing, and
\* the published list holds every box derived from the regions that did not
\* fail.
C6_FailureIsolated ==
    /\ worker.pc = "emit" =>
           /\ cycle_log = CycleInputs
           /\ pub_value = DerivedBoxes(search_model, CycleInputs, 1)
    /\ worker.pc = "sleep" => pub_count >= 1

C6_Witness ==
    /\ worker.pc = "emit"
    /\ Len(selected_regions) = 2
    /\ cycle_log[1].failed
    /\ ~cycle_log[2].failed
    /\ pub_value # <<>>
    /\ \A k \in 1..Len(pub_value) : pub_value[k][5] = selected_regions[2].idx

\* C7: with registry, monitors, search configuration and scale unchanged and
\* the same recognizer output, a cycle publishes the same list as the cycle
\* before it: same length, order, coordinates, monitor ids and keyword ranks.
C7_SameFrameSameList ==
    pub_count = 2 => pub_value = prev_value

C7_Witness ==
    /\ pub_count = 2
    /\ Len(pub_value) >= 2
    /\ \E k \in 1..Len(pub_value) : pub_value[k][6] = 1
    /\ scale_spin = 50

(***************************************************************************)
(* Shared highlight state.                                                 *)
(***************************************************************************)
\* C10: while paintEvent iterates, the list behind matched_boxes is the
\* complete list of the last finished cycle (or the initial empty list), and
\* what has been drawn so far is drawn from that list in order: the list is
\* never a cycle's partial result and does not change under the iteration.
C10_RendererReadsWholeLists ==
    paint.pc = "iter" =>
        /\ heap[matched_boxes] = pub_value
        /\ paint.i - 1 <= Len(pub_value)
        /\ paint.drawn =
               [k \in 1..(paint.i - 1) |-> PaintRect(pub_value[k], monitor_info)]

C10_Witness ==
    /\ paint.pc = "iter"
    /\ paint.i = 2
    /\ Len(heap[matched_boxes]) = 2
    /\ worker.pc = "capture"
    /\ worker.boxes # matched_boxes
    /\ Len(heap[worker.boxes]) = 1

(***************************************************************************)
(* Configuration snapshot and locking.                                     *)
(***************************************************************************)
\* the regions of the registry as it was at cycle start, each with the
\* outcome of its capture and recognition
StartInputs ==
    [k \in 1..Len(cycle_start.selected_regions) |->
        [idx |-> cycle_start.selected_regions[k].idx,
         region |-> cycle_start.selected_regions[k].region,
         failed |-> feed.of[cycle_start.selected_regions[k].idx].failed,
         data |-> feed.of[cycle_start.selected_regions[k].idx].data,
         pct |-> scale_spin]]

\* C11: the list a cycle publishes is what the registry and the search
\* configuration of the cycle's start yield on every region and fragment,
\* whatever the control panel edits while the cycle runs.
C11_CycleUsesStartSnapshot ==
    worker.pc = "emit" =>
        pub_value = DerivedBoxes(cycle_start.search_model, StartInputs, 1)

\* the worker's steps that read the registry or the search configuration
ReadsConfiguration ==
    /\ worker.pc \in {"next_region", "capture", "fragment"}
    /\ worker' # worker

\* the primary context's steps that write them
WritesConfiguration ==
    search_model' # search_model \/ selected_regions' # selected_regions

\* C12: every step of the scan loop that reads the registry or the search
\* configuration, and every step of the primary context that writes them,
\* is taken by a thread that holds the lock.
C12_ConfigurationUnderLock ==
    [][/\ ReadsConfiguration => lock = "worker"
       /\ WritesConfiguration => lock = "paint"]_vars

(***************************************************************************)
(* The shape of the loop.                                                  *)
(***************************************************************************)
InCyclePcs == {"next_region", "capture", "fragment", "acquire", "publish", "emit"}

\* C13: a cycle is only ever left for the inter-cycle sleep, the top of the
\* loop is only reached from a sleep, every cycle that starts reaches the
\* sleep (with no match, after a region's error, or after an error outside
\* the per-region handler), and after the sleep the loop is at its top again.
C13_CycleThenSleep ==
    /\ [][/\ (worker.pc \in InCyclePcs /\ worker'.pc \notin InCyclePcs)
              => worker'.pc = "sleep"
          /\ (worker'.pc = "top" /\ worker.pc # "top")
              => worker.pc \in {"sleep", "idle_sleep"}
          /\ (worker'.pc \in InCyclePcs /\ worker.pc \notin InCyclePcs)
              => (worker.pc = "top" /\ ocr_active)]_vars
    /\ (worker.pc \in InCyclePcs) ~> (worker.pc = "sleep")
    /\ (worker.pc = "sleep") ~> (worker.pc = "top")

\* the sleep reached by a cycle that an exception ended before it published
C13_Witness ==
    /\ worker.pc = "sleep"
    /\ worker.boxes # matched_boxes
    /\ selected_regions # <<>>

\* C14: ocr_active is read at the top of an iteration only.  Found false
\* there, the iteration goes to the idle sleep and back to the top without
\* touching any list or the lock; a cycle under way is left only once it has
\* published or by an exception, and goes to publish only after the last
\* region, whatever the flag has become meanwhile.
C14_FlagReadAtTopOnly ==
    [][/\ (worker.pc = "top" /\ ~ocr_active /\ worker' # worker)
          => (worker'.pc = "idle_sleep" /\ UNCHANGED <<heap, matched_boxes, lock>>)
       /\ (worker.pc = "idle_sleep" /\ worker' # worker)
          => (worker'.pc = "top" /\ UNCHANGED <<heap, matched_boxes, lock>>)
       /\ (worker.pc \in InCyclePcs /\ worker'.pc \notin InCyclePcs)
          => (worker.pc = "emit" \/ Len(selected_regions) # worker.it_len)
       /\ (worker.pc = "next_region" /\ worker'.pc = "acquire")
          => worker.it_pos >= Len(selected_regions)]_vars

\* a cycle about to publish its boxes although scanning was disabled
\* while it ran
C14_Witness ==
    /\ worker.pc = "publish"
    /\ ~ocr_active
    /\ Len(heap[worker.boxes]) = 2

(***************************************************************************)
(* The empty keyword list.                                                 *)
(***************************************************************************)
\* C15: with no keyword, match_text is false for every text under OR and
\* under AND, and a cycle still captures and recognizes every configured
\* region but derives no box, so that the list it publishes, which becomes
\* the shared list, is empty.
C15_NoKeywordsEmptyResult ==
    search_model.keywords = <<>> =>
        /\ \A t \in ExampleTexts, l \in Logics :
               ~match_text([search_model EXCEPT !.logic = l], t)
        /\ worker.pc = "emit" =>
               /\ cycle_log = CycleInputs
               /\ pub_value = <<>>
               /\ heap[matched_boxes] = <<>>

C15_Witness ==
    /\ search_model.keywords = <<>>
    /\ worker.pc = "emit"
    /\ Len(cycle_log) = 2
    /\ \A k \in 1..2 : ~cycle_log[k].failed /\ cycle_log[k].data # <<>>
    /\ heap[matched_boxes] = <<>>

(***************************************************************************)
(* The region registry.                                                    *)
(***************************************************************************)
\* selected_regions.get(idx), <<>> standing for None
RegistryGet(regions, idx) ==
    IF HasKey(regions, idx)
    THEN regions[CHOOSE k \in 1..Len(regions) : regions[k].idx = idx].region
    ELSE <<>>

UniqueKeys(regions) ==
    \A j, k \in 1..Len(regions) : regions[j].idx = regions[k].idx => j = k

\* C16: the registry never holds two regions for one monitor; a selection
\* that is accepted makes the rectangle of its monitor the new one and
\* leaves every other monitor's entry as it was; clear-all leaves the
\* registry empty.
C16_OneRegionPerMonitor ==
    /\ []UniqueKeys(selected_regions)
    /\ [][/\ (~last_release.done /\ last_release'.done /\ last_release'.emitted)
              => \E m \in MonitorIds :
                     /\ RegistryGet(selected_regions', m) # <<>>
                     /\ RegistryGet(selected_regions', m)[3] = GestureW
                     /\ RegistryGet(selected_regions', m)[4] = GestureH
                     /\ \A o \in MonitorIds \ {m} :
                            RegistryGet(selected_regions', o) =
                                RegistryGet(selected_regions, o)
          /\ (last_release' = last_release /\ selected_regions' # selected_regions)
              => selected_regions' = <<>>]_vars

\* monitor 1's rectangle replaced by a selection, monitor 2's left alone
C16_Witness ==
    /\ last_release.done
    /\ last_release.emitted
    /\ Len(last_release.before) = 2
    /\ Len(selected_regions) = 2
    /\ RegistryGet(last_release.before, 1) = R1
    /\ RegistryGet(selected_regions, 1) # R1
    /\ RegistryGet(selected_regions, 2) = R2

(***************************************************************************)
(* Registry entries of unknown monitors.                                   *)
(***************************************************************************)
\* the entries of the registry whose monitor id names an existing monitor,
\* each with the outcome of its capture and recognition
KnownInputs ==
    LET known == SelectSeq(selected_regions, LAMBDA e : e.idx \in MonitorIds)
    IN  [k \in 1..Len(known) |->
            [idx |-> known[k].idx,
             region |-> known[k].region,
             failed |-> feed.of[known[k].idx].failed,
             data |-> feed.of[known[k].idx].data,
             pct |-> scale_spin]]

\* C17: a cycle captures exactly the entries whose monitor id is one of
\* 1..N, publishes exactly the boxes derived from them, and is not ended
\* early by an entry of any other id.
C17_UnknownMonitorSkipped ==
    /\ worker.pc = "emit" =>
           /\ cycle_log = KnownInputs
           /\ pub_value = DerivedBoxes(search_model, KnownInputs, 1)
    /\ worker.pc = "sleep" => pub_count >= 1

(***************************************************************************)
(* Loading the configuration.                                              *)
(***************************************************************************)
\* the failures that the file itself causes: it cannot be read, is no JSON,
\* has a monitor key that is no integer, or a field of the wrong type
FileFaults == {"open", "json", "regions", "keywords", "options", "scale"}

\* C18: a load that fails because of the file, wherever it fails, leaves the
\* registry with no region and the search model with no keyword.
C18_FailedLoadLeavesEmpty ==
    (last_load.done /\ last_load.failed_at \in FileFaults) =>
        /\ selected_regions = <<>>
        /\ search_model.keywords = <<>>

(***************************************************************************)
(* The keyword list.                                                       *)
(***************************************************************************)
Among(kws) == {kws[k] : k \in 1..Len(kws)}

\* C19: the keyword list never holds a duplicate, an empty string or a
\* string with white space at either end; a step of add_keyword,
\* remove_keyword or clear_keywords keeps the keywords that survive in their
\* order and puts a new one last; and add_keyword of a blank or present
\* keyword changes nothing.
C19_KeywordListWellFormed ==
    /\ [](/\ IsUnique(search_model.keywords)
          /\ \A k \in 1..Len(search_model.keywords) :
                 /\ search_model.keywords[k] # <<>>
                 /\ Strip(search_model.keywords[k]) = search_model.keywords[k]
          /\ \A raw \in RawKeywords :
                 (Strip(raw) = <<>> \/ Strip(raw) \in Among(search_model.keywords))
                     => add_keyword(search_model, raw) = search_model)
    /\ [][LET old == search_model.keywords
              new == search_model'.keywords
              kept == SelectSeq(new, LAMBDA kw : kw \in Among(old))
          IN  /\ kept = SelectSeq(old, LAMBDA kw : kw \in Among(new))
              /\ kept = SubSeq(new, 1, Len(kept))]_vars

\* a list built from a padded 'cat' and from 'Cat', 'dog' having been added
\* first
C19_Witness ==
    search_model.keywords = <<K_dog, K_cat, K_Cat>>

(***************************************************************************)
(* A call that does not return.                                            *)
(***************************************************************************)
\* C20: when the capture or recognizer call of one region never returns,
\* every other configured region of the cycle is eventually captured.
C20_HangStallsOwnRegionOnly ==
    (worker.pc = "hung") ~> (Len(cycle_log) >= Len(selected_regions) - 1)

(***************************************************************************)
(* One publication per cycle.                                              *)
(***************************************************************************)
\* C21: a cycle is left only by the step after its publication, the shared
\* list changes only at the publish step, which comes after the last
\* region and stores the list the cycle assembled, and every cycle that
\* has started reaches that step, whatever the control panel does to the
\* registry meanwhile.
C21_EveryCyclePublishesOnce ==
    /\ [][/\ (worker.pc \in InCyclePcs /\ worker'.pc \notin InCyclePcs)
              => worker.pc = "emit"
          /\ matched_boxes' # matched_boxes
              => /\ worker.pc = "publish"
                 /\ matched_boxes' = worker.boxes
                 /\ pub_value' = heap[worker.boxes]]_vars
    /\ (worker.pc = "next_region") ~> (worker.pc = "emit")

(***************************************************************************)
(* get_match_details against match_text.                                   *)
(***************************************************************************)
\* C22: under AND in literal mode, with at least one keyword and a
\* non-empty text, matched of get_match_details is true iff every keyword
\* individually matches, and so equals the result of match_text.
C22_DetailsAgreeUnderAnd ==
    (/\ test_out.done
     /\ search_model.logic = "AND"
     /\ ~search_model.use_regex
     /\ search_model.keywords # <<>>
     /\ test_text # <<>>) =>
        /\ test_out.details.matched <=>
               EveryKeyword(search_model, test_text, LiteralVerdict)
        /\ test_out.details.matched <=> test_out.result

\* the configured patterns that match the text as regular expressions, in
\* configuration order
RECURSIVE PatternList(_, _, _)
PatternList(m, text, i) ==
    IF i > Len(m.keywords)
    THEN <<>>
    ELSE (IF re_search(m.keywords[i], text, ~m.case_sensitive)
          THEN <<m.keywords[i]>> ELSE <<>>)
         \o PatternList(m, text, i + 1)

\* C23: in regex mode with well-formed patterns and a non-empty text, the
\* keywords get_match_details reports are the patterns that match the text
\* as regular expressions: all of them under OR, and under AND, when every
\* pattern matches, the whole list.
C23_RegexDetailsArePatterns ==
    (/\ test_out.done
     /\ search_model.use_regex
     /\ test_text # <<>>
     /\ \A k \in 1..Len(search_model.keywords) :
            ~IsMalformed(search_model.keywords[k])) =>
        /\ search_model.logic = "OR" =>
               test_out.details.keywords = PatternList(search_model, test_text, 1)
        /\ (/\ search_model.logic = "AND"
            /\ PatternList(search_model, test_text, 1) = search_model.keywords) =>
               test_out.details.keywords = search_model.keywords

(***************************************************************************)
(* Regular-expression keywords in the scan cycle.                          *)
(***************************************************************************)
\* C24: in regex mode match_text returns for every fragment a cycle meets,
\* whatever the patterns are, and the cycle evaluates every fragment of
\* every configured region: every region is captured and the list it
\* publishes holds the box of every fragment that yields one.
C24_PatternErrorNeverRaises ==
    worker.pc = "emit" =>
        /\ \A k \in 1..Len(cycle_log) : \A j \in 1..Len(cycle_log[k].data) :
               ~FragmentRaises(search_model, cycle_log[k].data[j])
        /\ cycle_log = CycleInputs
        /\ pub_value = DerivedBoxes(search_model, CycleInputs, 1)

\* the smallest index, in configuration order, of a keyword that
\* individually matches the text; -1 when there is none
FirstVerdict(m, text) ==
    LET hits == {k \in 1..Len(m.keywords) : KeywordVerdict(m, m.keywords[k], text)}
    IN  IF hits = {} THEN -1
        ELSE (CHOOSE k \in hits : \A other \in hits : k <= other) - 1

\* C25: every published box is the box of a fragment recognized in the
\* cycle with, as its rank, the smallest index of a configured keyword that
\* individually matches that fragment, and the rank is at least 0 and less
\* than the number of keywords.
C25_RankIsFirstMatchingKeyword ==
    worker.pc = "emit" =>
        \A b \in 1..Len(pub_value) :
            /\ 0 <= pub_value[b][6]
            /\ pub_value[b][6] < Len(search_model.keywords)
            /\ \E k \in 1..Len(cycle_log) : \E j \in 1..Len(cycle_log[k].data) :
                   pub_value[b] =
                       BoxOf(cycle_log[k].region, cycle_log[k].data[j],
                             cycle_log[k].pct, cycle_log[k].idx,
                             FirstVerdict(search_model,
                                          Strip(cycle_log[k].data[j].text)))

(***************************************************************************)
(* The match report.                                                       *)
(***************************************************************************)
\* C26: the step that emits the match report is reached only from the
\* publish step, and when the report is about to be emitted the shared list
\* is the list of this cycle, the lock is released, and the report has one
\* record for each box of that list, in the same order and with the box's
\* monitor id; the records are handed over by the emitting step only.
C26_ReportFollowsSwap ==
    /\ [](worker.pc = "emit" =>
             /\ matched_boxes = worker.boxes
             /\ heap[matched_boxes] = pub_value
             /\ lock # "worker"
             /\ Len(worker.search_results) = Len(pub_value)
             /\ \A k \in 1..Len(pub_value) :
                    worker.search_results[k].monitor = pub_value[k][5])
    /\ [][/\ (worker'.pc = "emit" /\ worker.pc # "emit")
              => (worker.pc = "publish" /\ matched_boxes' = worker.boxes)
          /\ (worker.search_results # <<>> /\ worker'.search_results = <<>>)
              => worker.pc = "emit"]_vars

\* a report of boxes on both monitors
C26_Witness ==
    /\ worker.pc = "emit"
    /\ Len(pub_value) >= 2
    /\ worker.search_results[1].monitor # worker.search_results[Len(pub_value)].monitor
    /\ \E k \in 1..Len(cycle_log) : \E j \in 1..Len(cycle_log[k].data) :
           /\ NonBlank(cycle_log[k].data[j])
           /\ ~match_text(search_model, Strip(cycle_log[k].data[j].text))

(***************************************************************************)
(* The rectangles of the registry.                                         *)
(***************************************************************************)
RegionWellFormed(e) ==
    /\ e.idx \in DOMAIN monitor_info
    /\ e.region[1] >= 0
    /\ e.region[2] >= 0
    /\ e.region[3] >= MinWidth
    /\ e.region[4] >= MinHeight
    /\ e.region[1] + e.region[3] <= monitor_info[e.idx].width
    /\ e.region[2] + e.region[4] <= monitor_info[e.idx].height

\* C27: every region stored in the registry has x >= 0, y >= 0, width >= 50
\* and height >= 30, belongs to a monitor that exists, and lies within that
\* monitor's width and height.
C27_RegistryRegionsWellFormed ==
    \A k \in 1..Len(selected_regions) : RegionWellFormed(selected_regions[k])

(***************************************************************************)
(* Who writes the shared highlight list.                                   *)
(***************************************************************************)
\* C28: the shared list (which list matched_boxes names, and what that list
\* holds) changes at the publish step of the scan loop only; in particular
\* it stays as it is while scanning is disabled and the loop idles, whatever
\* the control panel and paintEvent do.
C28_OnlyPublishWritesList ==
    [][/\ (matched_boxes' # matched_boxes
              \/ heap'[matched_boxes'] # heap[matched_boxes])
           => worker.pc = "publish"
       /\ (~ocr_active /\ worker.pc \in {"top", "idle_sleep"})
           => (ocr_active' \/ heap'[matched_boxes'] = heap[matched_boxes])]_vars

\* scanning stopped and every region cleared, the boxes still published
C28_Witness ==
    /\ ~ocr_active
    /\ worker.pc = "idle_sleep"
    /\ selected_regions = <<>>
    /\ Len(heap[matched_boxes]) = 2
    /\ paint.pc = "iter"

(***************************************************************************)
(* start_search.                                                           *)
(***************************************************************************)
\* the first occurrences of the elements of a list, in order
RECURSIVE FirstOccurrences(_, _)
FirstOccurrences(seq, seen) ==
    IF seq = <<>> THEN <<>>
    ELSE IF seq[1] \in seen
         THEN FirstOccurrences(Tail(seq), seen)
         ELSE <<seq[1]>> \o FirstOccurrences(Tail(seq), seen \cup {seq[1]})

\* the trimmed, non-empty, de-duplicated lines of a text, in order
TrimmedLines(text) ==
    LET lines == SplitLines(text)
        trimmed == [k \in 1..Len(lines) |-> Strip(lines[k])]
    IN  FirstOccurrences(SelectSeq(trimmed, LAMBDA l : l # <<>>), {})

\* C29: a call of start_search sets the enable flag only with at least one
\* keyword configured afterwards; with a blank input box and no keyword it
\* changes neither the flag nor the search model; with a non-blank input
\* box it makes the keyword list the trimmed, non-empty, de-duplicated
\* lines of the input, in order, and sets the flag.
C29_StartNeedsKeyword ==
    [][(~last_start.done /\ last_start'.done) =>
          /\ (ocr_active' # ocr_active) =>
                 (ocr_active' /\ search_model'.keywords # <<>>)
          /\ (Strip(panel.keywords_input) = <<>> /\ search_model.keywords = <<>>)
                 => (ocr_active' = ocr_active /\ search_model' = search_model)
          /\ Strip(panel.keywords_input) # <<>>
                 => /\ search_model'.keywords = TrimmedLines(panel.keywords_input)
                    /\ ocr_active']_vars

\* the keywords [dog, banana] replaced by the lines ' cat ', '', 'dog', 'cat'
C29_Witness ==
    /\ last_start.done
    /\ ~last_start.warned
    /\ ocr_active
    /\ Len(panel.keywords_input) > 10
    /\ search_model.keywords = <<K_cat, K_dog>>

=============================================================================
